---- MODULE Spec2Model ----
(***************************************************************************)
(* Signal fusion and risk gating of the trading prototype.                 *)
(*                                                                         *)
(* The Python code computes with floats.  Here every real number is an     *)
(* exact rational: a confidence is a fraction <<n, d>> with d > 0         *)
(* (analyzer confidences are n / ConfScale), a price is an integer number  *)
(* of currency units and a derived price is a fraction <<n, d>>.           *)
(* Rounding of IEEE doubles is therefore outside this model.               *)
(*                                                                         *)
(* A call either returns a value or raises: Return(v) / Raise(e).          *)
(***************************************************************************)
EXTENDS Integers, Sequences, FiniteSets, TLC

VARIABLES pc, op, args, ret, checks, objects, fuser_calls,
          state,
          running, stops_before, stops_after, iterations, iterations_after_stop

\* One call of an operation: its position, name, arguments, outcome, the
\* check list of the risk gate, the objects passed and the fuser's inputs.
call_vars == <<pc, op, args, ret, checks, objects, fuser_calls>>

\* UpgradeStateManager.state
manager_vars == <<state>>

\* AITradingEngine.running and the history of one start() call: the stop()
\* calls made before and after start() set the flag, the loop iterations
\* completed, and those completed after the first such stop().
engine_vars == <<running, stops_before, stops_after, iterations, iterations_after_stop>>

vars == <<call_vars, manager_vars, engine_vars>>

----------------------------------------------------------------------------
(* Bounds of the model *)

MaxSignals == 4

----------------------------------------------------------------------------
(* Outcomes of a call *)

Return(v) == <<"return", v>>
Raise(e) == <<"raise", e>>
Returned(o) == o[1] = "return"
Raised(o) == o[1] = "raise"
Val(o) == o[2]

\* A numeric key that is absent from a dict.
Missing == 0 - 1

\* market_data.get('current_price', 0) and market_data.get('volume', 0)
GetOrZero(v) == IF v = Missing THEN 0 ELSE v

\* dict.get(key, default)
DictGet(d, key, default) == IF key \in DOMAIN d THEN d[key] ELSE default

----------------------------------------------------------------------------
(* Exact rationals <<n, d>>, d > 0 *)

ConfScale == 100 * 100

Rat(n, d) == IF d < 0 THEN <<0 - n, 0 - d>> ELSE <<n, d>>
RatEq(a, b) == a[1] * b[2] = b[1] * a[2]
RatLeq(a, b) == a[1] * b[2] <= b[1] * a[2]
RatLt(a, b) == a[1] * b[2] < b[1] * a[2]
RatGeq(a, b) == RatLeq(b, a)
RatGt(a, b) == RatLt(b, a)
RatMul(a, b) == <<a[1] * b[1], a[2] * b[2]>>
RatOneMinus(a) == <<a[2] - a[1], a[2]>>
Abs(x) == IF x < 0 THEN 0 - x ELSE x

RECURSIVE SumSeq(_)
SumSeq(s) == IF s = <<>> THEN 0 ELSE Head(s) + SumSeq(Tail(s))

----------------------------------------------------------------------------
(* signal_generator: TradeSignal and the fuser *)

Actions == {"BUY", "SELL", "HOLD"}

\* TradeSignal(symbol, action, confidence, target_price, stop_loss, source);
\* confidence, target_price and stop_loss are fractions.
TradeSignal(symbol, action, confidence, target_price, stop_loss, source) ==
    [symbol |-> symbol, action |-> action, confidence |-> confidence,
     target_price |-> target_price, stop_loss |-> stop_loss,
     quantity |-> 0, source |-> source]

create_hold_signal(symbol) ==
    TradeSignal(symbol, "HOLD", <<0, 1>>, <<0, 1>>, <<0, 1>>, "")

\* Sums of the loop of fuse_signals over the whole list.
RECURSIVE ScoreOf(_, _)
ScoreOf(signals, action) ==
    IF signals = <<>> THEN 0
    ELSE (IF Head(signals).action = action THEN Head(signals).confidence[1] ELSE 0)
         + ScoreOf(Tail(signals), action)

RECURSIVE TotalConfidence(_)
TotalConfidence(signals) ==
    IF signals = <<>> THEN 0
    ELSE Head(signals).confidence[1] + TotalConfidence(Tail(signals))

\* The positive values of one price field, numerators over PriceDen.
PriceDen == 10 * 10

\* Faulty variant: no filter, every target enters the average.
RECURSIVE PositiveTargetsMutAll(_)
PositiveTargetsMutAll(signals) ==
    IF signals = <<>> THEN <<>>
    ELSE <<Head(signals).target_price[1]>> \o PositiveTargetsMutAll(Tail(signals))

\* [s.target_price for s in signals if s.target_price > 0]
RECURSIVE PositiveTargets(_)
PositiveTargets(signals) ==
    IF signals = <<>> THEN <<>>
    ELSE (IF Head(signals).target_price[1] > 0
          THEN <<Head(signals).target_price[1]>> ELSE <<>>)
         \o PositiveTargets(Tail(signals))

RECURSIVE PositiveStops(_)
PositiveStops(signals) ==
    IF signals = <<>> THEN <<>>
    ELSE (IF Head(signals).stop_loss[1] > 0
          THEN <<Head(signals).stop_loss[1]>> ELSE <<>>)
         \o PositiveStops(Tail(signals))

Average(values) ==
    IF values = <<>> THEN <<0, 1>>
    ELSE <<SumSeq(values), PriceDen * Len(values)>>

\* Faulty variant: strict comparisons with the threshold.
FuseDecisionMutGt(buy_score, sell_score, total) ==
    IF 10 * buy_score > 6 * total THEN <<"BUY", <<buy_score, total>>>>
    ELSE IF 10 * sell_score > 6 * total THEN <<"SELL", <<sell_score, total>>>>
    ELSE <<"HOLD", <<1, 2>>>>

\* The decision of fuse_signals from the three sums (total > 0).
FuseDecision(buy_score, sell_score, total) ==
    IF 10 * buy_score >= 6 * total THEN <<"BUY", <<buy_score, total>>>>
    ELSE IF 10 * sell_score >= 6 * total THEN <<"SELL", <<sell_score, total>>>>
    ELSE <<"HOLD", <<1, 2>>>>

\* Faulty variant: the symbol of the last signal.
FuseDegenerateMutLast(signals) ==
    IF signals = <<>> THEN create_hold_signal("")
    ELSE create_hold_signal(signals[Len(signals)].symbol)

\* The two early returns of fuse_signals.
FuseDegenerate(signals) ==
    IF signals = <<>> THEN create_hold_signal("")
    ELSE create_hold_signal(signals[1].symbol)

fuse_signals(signals) ==
    LET buy_score == ScoreOf(signals, "BUY")
        sell_score == ScoreOf(signals, "SELL")
        total_confidence == TotalConfidence(signals)
    IN  IF signals = <<>> \/ total_confidence = 0 THEN FuseDegenerate(signals)
        ELSE LET d == FuseDecision(buy_score, sell_score, total_confidence)
             IN  TradeSignal(signals[1].symbol, d[1], d[2],
                             Average(PositiveTargets(signals)),
                             Average(PositiveStops(signals)), "")

----------------------------------------------------------------------------
(* Inputs of the fuser: analyzer signals, confidences over ConfScale *)

Price(n) == <<n * PriceDen, PriceDen>>

SignalPool ==
    { TradeSignal("AAA", "BUY", <<2500, ConfScale>>, Price(108), Price(94), "technical"),
      TradeSignal("AAA", "BUY", <<3000, ConfScale>>, Price(112), Price(92), "fundamental"),
      TradeSignal("AAA", "HOLD", <<0, ConfScale>>, Price(0), Price(0), ""),
      TradeSignal("AAA", "SELL", <<1500, ConfScale>>, Price(100), Price(98), "sentiment"),
      TradeSignal("BBB", "SELL", <<3000, ConfScale>>, Price(88), Price(108), "fundamental"),
      TradeSignal("BBB", "HOLD", <<2000, ConfScale>>, Price(100), Price(98), "fundamental"),
      TradeSignal("BBB", "BUY", <<0, ConfScale>>, Price(108), Price(94), "technical"),
      TradeSignal("BBB", "SELL", <<0, ConfScale>>, Price(0), Price(0), "ai"),
      TradeSignal("AAA", "SELL", <<3000, ConfScale>>, Price(0 - 44), Price(0 - 54), "fundamental") }

SignalLists == UNION { [1..n -> SignalPool] : n \in 0..MaxSignals }

----------------------------------------------------------------------------
(* Price series and the technical analyzer of signal_generator *)

\* market_data.get('price_data'): the key is absent, its value is None, or
\* it is a frame, with or without its OHLCV columns, of close prices.
PriceData(kind, has_columns, closes) ==
    [kind |-> kind, has_columns |-> has_columns, closes |-> closes]

NoPriceData(kind) == PriceData(kind, FALSE, <<>>)

Shapes == {"flat", "rising", "falling", "zigzag", "step"}

Series(n, shape) ==
    [i \in 1..n |->
        CASE shape = "flat" -> 100
          [] shape = "rising" -> 100 + i
          [] shape = "falling" -> 200 - i
          [] shape = "zigzag" -> 100 + 2 * (i % 2)
          [] shape = "step" -> IF i + 3 > n THEN 110 ELSE 100]

\* closes.rolling(n).mean().iloc[-1] as a fraction (len(closes) >= n)
LastN(closes, n) == SubSeq(closes, Len(closes) - n + 1, Len(closes))
RollingMean(closes, n) == <<SumSeq(LastN(closes, n)), n>>
Mean(closes) == <<SumSeq(closes), Len(closes)>>

\* TechnicalAnalyzer.calculate_indicators: rsi, macd and macd_signal are the
\* fixed values of the simplified implementation.
calculate_indicators(price_data) ==
    IF ~price_data.has_columns THEN Raise("KeyError")
    ELSE LET closes == price_data.closes
         IN  Return([sma_20 |-> RollingMean(closes, 20),
                     sma_50 |-> IF Len(closes) >= 50 THEN RollingMean(closes, 50)
                                ELSE Mean(closes),
                     rsi |-> <<50, 1>>,
                     macd |-> <<0, 1>>,
                     macd_signal |-> <<0, 1>>,
                     current_price |-> closes[Len(closes)]])

\* SignalGenerator.__init__: the default weights, in percent.
DefaultWeights == [technical |-> 25, fundamental |-> 30, sentiment |-> 15, ai |-> 30]

\* SignalGenerator.__init__: the generator's weights for a config dict.
signal_generator_init(config) ==
    Return([weights |-> DictGet(config, "weights", DefaultWeights)])

\* if price_data is None or len(price_data) < 20
MinBars == 20

Insufficient(price_data) ==
    price_data.kind # "frame" \/ Len(price_data.closes) < MinBars

\* Faulty variant: equality of the averages counted as a bullish cross.
SmaTermMutGeq(ind) == IF RatGeq(ind.sma_20, ind.sma_50) THEN 10 ELSE 0 - 10

\* The score of technical_analysis, in hundredths.
SmaTerm(ind) == IF RatGt(ind.sma_20, ind.sma_50) THEN 10 ELSE 0 - 10

\* Faulty variant: an RSI of exactly 30 counted as oversold.
RsiTermMutLeq(ind) ==
    IF RatLeq(ind.rsi, <<30, 1>>) THEN 15
    ELSE IF RatGt(ind.rsi, <<70, 1>>) THEN 0 - 15
    ELSE 0

RsiTerm(ind) ==
    IF RatLt(ind.rsi, <<30, 1>>) THEN 15
    ELSE IF RatGt(ind.rsi, <<70, 1>>) THEN 0 - 15
    ELSE 0

\* Faulty variant: a MACD equal to its signal line counted as a golden cross.
MacdTermMutGeq(ind) == IF RatGeq(ind.macd, ind.macd_signal) THEN 10 ELSE 0 - 10

MacdTerm(ind) == IF RatGt(ind.macd, ind.macd_signal) THEN 10 ELSE 0 - 10

TechnicalScore(ind) == 50 + SmaTerm(ind) + RsiTerm(ind) + MacdTerm(ind)

\* <<action, target_price, stop_loss>> of a score and the current price
ScoreSignal(score, current_price) ==
    IF score >= 60
    THEN <<"BUY", <<current_price * 108, PriceDen>>, <<current_price * 94, PriceDen>>>>
    ELSE IF score <= 40
    THEN <<"SELL", <<current_price * 92, PriceDen>>, <<current_price * 106, PriceDen>>>>
    ELSE <<"HOLD", <<current_price * 100, PriceDen>>, <<current_price * 98, PriceDen>>>>

\* abs(score - 0.5) * 2 * weight, over ConfScale
WeightedConfidence(score, weight) == <<Abs(score - 50) * 2 * weight, ConfScale>>

\* technical_analysis from the indicator set on: the score, the signal of
\* the score and the weighted confidence.
technical_signal(symbol, ind, weights) ==
    IF weights.technical = Missing THEN Raise("KeyError")
    ELSE LET score == TechnicalScore(ind)
             sig == ScoreSignal(score, ind.current_price)
         IN  Return(TradeSignal(symbol, sig[1],
                                WeightedConfidence(score, weights.technical),
                                sig[2], sig[3], "technical"))

technical_body(symbol, market_data, weights) ==
    IF Insufficient(market_data.price_data) THEN Return(create_hold_signal(symbol))
    ELSE LET indicators == calculate_indicators(market_data.price_data)
         IN  IF Raised(indicators) THEN indicators
             ELSE technical_signal(symbol, Val(indicators), weights)

\* Faulty variant: no except branch, the exception propagates.
CatchAnalyzerMutPropagate(symbol, body) == body

\* except Exception as e: return self.create_hold_signal(symbol, ...)
CatchAnalyzer(symbol, body) ==
    IF Raised(body) THEN Return(create_hold_signal(symbol)) ELSE body

technical_analysis(symbol, market_data, weights) ==
    CatchAnalyzer(symbol, technical_body(symbol, market_data, weights))

\* technical_analysis on a sufficient series when self.technical_analyzer
\* is an analyzer whose calculate_indicators has the outcome `indicators`.
technical_analysis_with(symbol, indicators, weights) ==
    CatchAnalyzer(symbol, IF Raised(indicators) THEN indicators
                          ELSE technical_signal(symbol, Val(indicators), weights))

\* Inputs: the indicator sets of an arbitrary analyzer
IndicatorSets ==
    [sma_20 : {<<90, 1>>, <<100, 1>>, <<110, 1>>}, sma_50 : {<<100, 1>>},
     rsi : {<<20, 1>>, <<30, 1>>, <<50, 1>>, <<70, 1>>, <<80, 1>>},
     macd : {<<0 - 1, 1>>, <<0, 1>>, <<1, 1>>}, macd_signal : {<<0, 1>>},
     current_price : {0, 50, 100}]

\* Inputs: the price data of a snapshot
MaxBars == 51
Symbols == {"AAA", "BBB"}

PriceDatas ==
    {NoPriceData("absent"), NoPriceData("none")}
    \cup {PriceData("frame", FALSE, Series(n, "flat")) : n \in {0, MinBars}}
    \cup {PriceData("frame", TRUE, Series(n, shape)) : n \in 0..MaxBars, shape \in Shapes}

----------------------------------------------------------------------------
(* The other analyzers, the risk filter and generate_single_signal *)

\* fundamental_analysis: fundamental_score is the clipped random draw, in
\* hundredths.
fundamental_body(symbol, market_data, weights, fundamental_score) ==
    LET current_price == GetOrZero(market_data.current_price)
        sig == IF fundamental_score >= 70
               THEN <<"BUY", <<current_price * 112, PriceDen>>, <<current_price * 92, PriceDen>>>>
               ELSE IF fundamental_score <= 40
               THEN <<"SELL", <<current_price * 88, PriceDen>>, <<current_price * 108, PriceDen>>>>
               ELSE <<"HOLD", <<current_price * 100, PriceDen>>, <<current_price * 98, PriceDen>>>>
    IN  IF weights.fundamental = Missing THEN Raise("KeyError")
        ELSE Return(TradeSignal(symbol, sig[1],
                                WeightedConfidence(fundamental_score, weights.fundamental),
                                sig[2], sig[3], "fundamental"))

fundamental_analysis(symbol, market_data, weights, fundamental_score) ==
    CatchAnalyzer(symbol, fundamental_body(symbol, market_data, weights, fundamental_score))

\* sentiment_analysis: sentiment_score is the clipped random draw.
sentiment_body(symbol, market_data, weights, sentiment_score) ==
    LET current_price == GetOrZero(market_data.current_price)
        action == IF sentiment_score >= 60 THEN "BUY"
                  ELSE IF sentiment_score <= 40 THEN "SELL"
                  ELSE "HOLD"
    IN  IF weights.sentiment = Missing THEN Raise("KeyError")
        ELSE Return(TradeSignal(symbol, action,
                                WeightedConfidence(sentiment_score, weights.sentiment),
                                <<current_price * 100, PriceDen>>,
                                <<current_price * 98, PriceDen>>, "sentiment"))

sentiment_analysis(symbol, market_data, weights, sentiment_score) ==
    CatchAnalyzer(symbol, sentiment_body(symbol, market_data, weights, sentiment_score))

\* ai_analysis: ai_result is the outcome of AIAnalyzer.analyze, its
\* confidence in hundredths and its prices as percentages of current_price.
ai_body(symbol, market_data, weights, ai_result) ==
    IF Raised(ai_result) THEN ai_result
    ELSE IF weights.ai = Missing THEN Raise("KeyError")
    ELSE LET r == Val(ai_result)
             current_price == GetOrZero(market_data.current_price)
         IN  Return(TradeSignal(symbol, r.action,
                                <<r.confidence * weights.ai, ConfScale>>,
                                <<current_price * r.target_factor, PriceDen>>,
                                <<current_price * r.stop_factor, PriceDen>>, "ai"))

ai_analysis(symbol, market_data, weights, ai_result) ==
    CatchAnalyzer(symbol, ai_body(symbol, market_data, weights, ai_result))

\* Faulty variant: the confidence divided by 0.7.
RiskPenaltyMutDivide(confidence) == RatMul(confidence, <<10, 7>>)

\* signal.confidence *= 0.7
RiskPenalty(confidence) == RatMul(confidence, <<7, 10>>)

\* apply_risk_filters: abs(stop_loss - current_price) / current_price raises
\* ZeroDivisionError when current_price is 0.
apply_risk_filters(signal, market_data) ==
    LET current_price == GetOrZero(market_data.current_price)
        stop == signal.stop_loss
        stop_loss_pct == Rat(Abs(stop[1] - current_price * stop[2]),
                             current_price * stop[2])
    IN  IF signal.action = "HOLD" THEN Return(signal)
        ELSE IF current_price = 0 THEN Raise("ZeroDivisionError")
        ELSE IF RatGt(stop_loss_pct, <<15, 100>>)
        THEN Return([signal EXCEPT !.confidence = RiskPenalty(@)])
        ELSE Return(signal)

\* The object apply_risk_filters received, after the call: the function
\* writes the penalised confidence to that object and returns the same
\* object; a call that raises has written nothing.
risk_filtered_object(signal, market_data) ==
    LET r == apply_risk_filters(signal, market_data)
    IN  IF Returned(r) THEN Val(r) ELSE signal

\* `if not market_data`: the provider returned None or an empty dict.
EmptyMarket == [empty |-> TRUE]

MarketData(current_price, price_data) ==
    [empty |-> FALSE, current_price |-> current_price, price_data |-> price_data]

\* Faulty variant: an analyzer that fell back to HOLD with confidence 0 is
\* left out of the list.
AnalyzerOutcomesMutSkipFailed(symbol, market_data, weights, fundamental_score, sentiment_score, ai_result) ==
    SelectSeq(<< technical_analysis(symbol, market_data, weights),
                 fundamental_analysis(symbol, market_data, weights, fundamental_score),
                 sentiment_analysis(symbol, market_data, weights, sentiment_score),
                 ai_analysis(symbol, market_data, weights, ai_result) >>,
              LAMBDA o : ~(Returned(o) /\ Val(o).action = "HOLD"
                                       /\ Val(o).confidence[1] = 0))

\* The four analyzer outcomes, in the order they are awaited.
AnalyzerOutcomes(symbol, market_data, weights, fundamental_score, sentiment_score, ai_result) ==
    << technical_analysis(symbol, market_data, weights),
       fundamental_analysis(symbol, market_data, weights, fundamental_score),
       sentiment_analysis(symbol, market_data, weights, sentiment_score),
       ai_analysis(symbol, market_data, weights, ai_result) >>

\* The list literal handed to fuse_signals: the signals the analyzers
\* returned.
FuserInput(outcomes) == [i \in 1..Len(outcomes) |-> Val(outcomes[i])]

\* The try body of generate_single_signal; market is the outcome of
\* get_market_data.
generate_body(symbol, market, weights, fundamental_score, sentiment_score, ai_result) ==
    IF Raised(market) THEN market
    ELSE IF Val(market).empty THEN Return(create_hold_signal(symbol))
    ELSE LET market_data == Val(market)
             outcomes == AnalyzerOutcomes(symbol, market_data, weights,
                                          fundamental_score, sentiment_score, ai_result)
         IN  IF \E i \in 1..Len(outcomes) : Raised(outcomes[i]) THEN Raise("analyzer")
             ELSE LET combined_signal == fuse_signals(FuserInput(outcomes))
                  IN  apply_risk_filters(combined_signal, market_data)

\* The argument lists fuse_signals is invoked with during one
\* generate_single_signal call: none when the market data is absent or a
\* step before the fuser raised.
generate_fuser_calls(symbol, market, weights, fundamental_score, sentiment_score, ai_result) ==
    IF Raised(market) THEN <<>>
    ELSE IF Val(market).empty THEN <<>>
    ELSE LET outcomes == AnalyzerOutcomes(symbol, Val(market), weights,
                                          fundamental_score, sentiment_score, ai_result)
         IN  IF \E i \in 1..Len(outcomes) : Raised(outcomes[i]) THEN <<>>
             ELSE <<FuserInput(outcomes)>>

\* Faulty variant: no except branch, the exception propagates.
CatchGenerateMutPropagate(symbol, body) == body

\* except Exception as e: return TradeSignal(HOLD, confidence 0.0, ...)
CatchGenerate(symbol, body) ==
    IF Raised(body) THEN Return(create_hold_signal(symbol)) ELSE body

generate_single_signal(symbol, market, weights, fundamental_score, sentiment_score, ai_result) ==
    CatchGenerate(symbol, generate_body(symbol, market, weights, fundamental_score,
                                        sentiment_score, ai_result))

\* Faulty variant: HOLD signals are kept too.
KeepSignalMutAll(signal) == TRUE

\* `if signal and signal.action != "HOLD"`: a TradeSignal is always truthy.
KeepSignal(signal) == signal.action # "HOLD"

\* list.sort(key=confidence, reverse=True): a stable sort, signals of equal
\* confidence keep the order in which they were appended.
RECURSIVE InsertByConfidence(_, _)
InsertByConfidence(sorted, signal) ==
    IF sorted = <<>> THEN <<signal>>
    ELSE IF RatLt(Head(sorted).confidence, signal.confidence)
    THEN <<signal>> \o sorted
    ELSE <<Head(sorted)>> \o InsertByConfidence(Tail(sorted), signal)

RECURSIVE SortByConfidence(_)
SortByConfidence(signals) ==
    IF signals = <<>> THEN <<>>
    ELSE InsertByConfidence(SortByConfidence(SubSeq(signals, 1, Len(signals) - 1)),
                            signals[Len(signals)])

\* generate_trade_signals: runs[i] holds the symbol of the i-th list entry
\* and what its generate_single_signal call meets (market data, random
\* draws, AI result).
generate_trade_signals(runs, weights) ==
    LET outcomes ==
            [i \in 1..Len(runs) |->
                generate_single_signal(runs[i].symbol, runs[i].market, weights,
                                       runs[i].fundamental_score,
                                       runs[i].sentiment_score, runs[i].ai_result)]
    IN  IF \E i \in 1..Len(runs) : Raised(outcomes[i])
        THEN outcomes[CHOOSE i \in 1..Len(runs) :
                          /\ Raised(outcomes[i])
                          /\ \A j \in 1..(i - 1) : ~Raised(outcomes[j])]
        ELSE Return(SortByConfidence(
                        SelectSeq([i \in 1..Len(runs) |-> Val(outcomes[i])], KeepSignal)))

\* Inputs of the pipeline
FundamentalScores == {10, 40, 55, 90}
SentimentScores == {10, 50, 90}
AIResults ==
    {Raise("analyzer")}
    \cup {Return(r) : r \in [action : {"BUY", "SELL"}, confidence : {60, 90},
                            target_factor : {110}, stop_factor : {85, 98}]}
PipelinePriceDatas ==
    {NoPriceData("none"), PriceData("frame", FALSE, Series(MinBars, "flat"))}
    \cup {PriceData("frame", TRUE, Series(n, shape)) :
             n \in {MinBars - 1, MinBars, MaxBars}, shape \in {"flat", "rising"}}
PipelineWeights ==
    {DefaultWeights, [technical |-> 100, fundamental |-> 100, sentiment |-> 100, ai |-> 100]}

\* Inputs of generate_trade_signals: what the call for one list entry meets
MaxSymbols == 3

SymbolRuns ==
    [symbol : Symbols,
     market : {Raise("provider"),
               Return(MarketData(100, PriceData("frame", TRUE, Series(MinBars, "flat"))))},
     fundamental_score : {10, 90}, sentiment_score : {90},
     ai_result : {Return([action |-> "BUY", confidence |-> 90,
                          target_factor |-> 110, stop_factor |-> 98])}]
    \cup
    [symbol : Symbols,
     market : {Return(MarketData(100, PriceData("frame", TRUE, Series(MaxBars, "rising"))))},
     fundamental_score : {90}, sentiment_score : {90},
     ai_result : {Raise("analyzer"),
                  Return([action |-> "BUY", confidence |-> 90,
                          target_factor |-> 110, stop_factor |-> 98])}]
    \cup
    [symbol : Symbols,
     market : {Return(MarketData(100, PriceData("frame", TRUE, Series(MinBars, "flat"))))},
     fundamental_score : {10}, sentiment_score : {10},
     ai_result : {Return([action |-> "SELL", confidence |-> 60,
                          target_factor |-> 110, stop_factor |-> 98])}]

Markets ==
    {Raise("provider"), Return(EmptyMarket)}
    \cup {Return(MarketData(p, d)) : p \in {Missing, 0, 50, 100}, d \in PipelinePriceDatas}

----------------------------------------------------------------------------
(* ai_strategies: the indicator calculator and the whole-strategy analyzers *)

StrategyResult(symbol, action, confidence, target_price, stop_loss) ==
    [symbol |-> symbol, action |-> action, confidence |-> confidence,
     target_price |-> target_price, stop_loss |-> stop_loss]

\* closes.diff() over the last n bars: the gains and the losses
RECURSIVE SumGains(_, _)
SumGains(closes, n) ==
    IF n = 0 \/ Len(closes) < 2 THEN 0
    ELSE LET k == Len(closes)
             delta == closes[k] - closes[k - 1]
         IN  (IF delta > 0 THEN delta ELSE 0) + SumGains(SubSeq(closes, 1, k - 1), n - 1)

RECURSIVE SumLosses(_, _)
SumLosses(closes, n) ==
    IF n = 0 \/ Len(closes) < 2 THEN 0
    ELSE LET k == Len(closes)
             delta == closes[k] - closes[k - 1]
         IN  (IF delta < 0 THEN 0 - delta ELSE 0) + SumLosses(SubSeq(closes, 1, k - 1), n - 1)

RsiPeriod == 14

\* rs = gain / loss on the last bar and the rsi of lines 57-58 and 69:
\* with gain = loss = 0 rs is NaN, rsi is the int 50, and the expression
\* rsi.iloc[-1] of line 69 raises AttributeError; with loss = 0 < gain rs is
\* inf and the rsi is 100.
\* Faulty variant: the neutral value whenever the average loss is zero.
RsiMutFallback(closes) ==
    LET gain == SumGains(closes, RsiPeriod)
        loss == SumLosses(closes, RsiPeriod)
    IN  IF loss = 0 THEN Return(<<50, 1>>)
        ELSE Return(<<100 * gain, gain + loss>>)

Rsi(closes) ==
    LET gain == SumGains(closes, RsiPeriod)
        loss == SumLosses(closes, RsiPeriod)
    IN  IF gain = 0 /\ loss = 0 THEN Raise("AttributeError")
        ELSE IF loss = 0 THEN Return(<<100, 1>>)
        ELSE Return(<<100 * gain, gain + loss>>)

IsFlat(closes) == \A i \in 1..Len(closes) : closes[i] = closes[1]

\* AIBaseStrategy.calculate_technical_indicators.  The exponential averages
\* are not computed: macd_above stands for macd > macd_signal, which is false
\* on a constant series (macd = macd_signal = 0).  An empty dict is
\* [empty |-> TRUE].
calculate_technical_indicators(price_data, macd_above) ==
    IF price_data.kind = "none" THEN Raise("TypeError")
    ELSE IF Len(price_data.closes) < MinBars THEN Return([empty |-> TRUE])
    ELSE IF ~price_data.has_columns THEN Raise("KeyError")
    ELSE LET closes == price_data.closes
             rsi == Rsi(closes)
         IN  IF Raised(rsi) THEN rsi
             ELSE Return([empty |-> FALSE,
                          sma_20 |-> RollingMean(closes, 20),
                          sma_50 |-> IF Len(closes) >= 50 THEN RollingMean(closes, 50)
                                     ELSE Mean(closes),
                          rsi |-> Val(rsi),
                          macd_above |-> macd_above /\ ~IsFlat(closes),
                          current_price |-> closes[Len(closes)]])

\* The result for an empty indicator set: HOLD with confidence 0.5.
InsufficientResult(symbol) ==
    StrategyResult(symbol, "HOLD", <<1, 2>>, <<0, 1>>, <<0, 1>>)

\* The result of the except branch: HOLD with confidence 0.0.
ErrorResult(symbol) ==
    StrategyResult(symbol, "HOLD", <<0, 1>>, <<0, 1>>, <<0, 1>>)

CatchStrategy(symbol, body) ==
    IF Raised(body) THEN Return(ErrorResult(symbol)) ELSE body

\* DeepSeekMomentumStrategy.analyze, try body
momentum_body(symbol, market_data, macd_above) ==
    LET tech_indicators == calculate_technical_indicators(market_data.price_data, macd_above)
    IN  IF Raised(tech_indicators) THEN tech_indicators
        ELSE IF Val(tech_indicators).empty THEN Return(InsufficientResult(symbol))
        ELSE LET ind == Val(tech_indicators)
                 current_price == ind.current_price
                 rsi_bull == IF RatLt(ind.rsi, <<30, 1>>) THEN 1 ELSE 0
                 rsi_bear == IF ~RatLt(ind.rsi, <<30, 1>>) /\ RatGt(ind.rsi, <<70, 1>>)
                             THEN 1 ELSE 0
                 sma_bull == IF RatGt(<<current_price, 1>>, ind.sma_20) THEN 1 ELSE 0
                 macd_bull == IF ind.macd_above THEN 1 ELSE 0
                 bullish_signals == rsi_bull + sma_bull + macd_bull
                 bearish_signals == rsi_bear + (1 - sma_bull) + (1 - macd_bull)
                 total_signals == bullish_signals + bearish_signals
                 confidence == IF total_signals > 0
                               THEN <<Abs(bullish_signals - bearish_signals), total_signals>>
                               ELSE <<1, 2>>
             IN  IF bullish_signals > bearish_signals
                 THEN Return(StrategyResult(symbol, "BUY", confidence,
                                            <<current_price * 110, PriceDen>>,
                                            <<current_price * 95, PriceDen>>))
                 ELSE IF bearish_signals > bullish_signals
                 THEN Return(StrategyResult(symbol, "SELL", confidence,
                                            <<current_price * 90, PriceDen>>,
                                            <<current_price * 105, PriceDen>>))
                 ELSE Return(StrategyResult(symbol, "HOLD", confidence,
                                            <<current_price * 100, PriceDen>>,
                                            <<current_price * 98, PriceDen>>))

momentum_analyze(symbol, market_data, macd_above) ==
    CatchStrategy(symbol, momentum_body(symbol, market_data, macd_above))

\* QWenMeanReversionStrategy.analyze, try body
mean_reversion_body(symbol, market_data, macd_above) ==
    LET tech_indicators == calculate_technical_indicators(market_data.price_data, macd_above)
    IN  IF Raised(tech_indicators) THEN tech_indicators
        ELSE IF Val(tech_indicators).empty THEN Return(InsufficientResult(symbol))
        ELSE LET ind == Val(tech_indicators)
                 current_price == ind.current_price
                 sma_20 == ind.sma_20
                 \* (current_price - sma_20) / sma_20
                 price_deviation == Rat(current_price * sma_20[2] - sma_20[1], sma_20[1])
                 magnitude == <<Abs(price_deviation[1]) * 10, price_deviation[2]>>
                 confidence == IF RatLt(<<8, 10>>, magnitude) THEN <<8, 10>> ELSE magnitude
                 target_price == <<sma_20[1] * (PriceDen \div sma_20[2]), PriceDen>>
             IN  IF sma_20[1] = 0 THEN Raise("ZeroDivisionError")
                 ELSE IF RatLt(price_deviation, <<0 - 5, 100>>) /\ RatLt(ind.rsi, <<35, 1>>)
                 THEN Return(StrategyResult(symbol, "BUY", confidence, target_price,
                                            <<current_price * 92, PriceDen>>))
                 ELSE IF RatGt(price_deviation, <<5, 100>>) /\ RatGt(ind.rsi, <<65, 1>>)
                 THEN Return(StrategyResult(symbol, "SELL", confidence, target_price,
                                            <<current_price * 108, PriceDen>>))
                 ELSE Return(StrategyResult(symbol, "HOLD", <<3, 10>>,
                                            <<current_price * 100, PriceDen>>,
                                            <<current_price * 98, PriceDen>>))

mean_reversion_analyze(symbol, market_data, macd_above) ==
    CatchStrategy(symbol, mean_reversion_body(symbol, market_data, macd_above))

----------------------------------------------------------------------------
(* ai_strategies: MultiAIConsensusStrategy *)

RECURSIVE Gcd(_, _)
Gcd(a, b) == IF b = 0 THEN a ELSE Gcd(b, a % b)

\* A fraction in lowest terms; sums of floats are sums of such fractions.
RatNorm(a) ==
    LET g == Gcd(Abs(a[1]), a[2])
    IN  IF g = 0 THEN a ELSE <<a[1] \div g, a[2] \div g>>

RatAdd(a, b) == RatNorm(<<a[1] * b[2] + b[1] * a[2], a[2] * b[2]>>)

RECURSIVE RatSum(_)
RatSum(s) == IF s = <<>> THEN <<0, 1>> ELSE RatAdd(Head(s), RatSum(Tail(s)))

\* sum(values) / len(values) if values else 0
RatMean(values) ==
    IF values = <<>> THEN <<0, 1>>
    ELSE LET total == RatSum(values)
         IN  RatNorm(<<total[1], total[2] * Len(values)>>)

\* The entries of asyncio.gather(..., return_exceptions=True) that are kept:
\* not an exception, and an object with an action attribute.
IsValidResult(outcome) == Returned(outcome) /\ "action" \in DOMAIN Val(outcome)

ValidResults(results) ==
    LET kept == SelectSeq(results, IsValidResult)
    IN  [i \in 1..Len(kept) |-> Val(kept[i])]

CountAction(valid_results, action) ==
    Cardinality({i \in 1..Len(valid_results) : valid_results[i].action = action})

\* if not self.sub_strategies / if not valid_results
NoConsensus(symbol) == StrategyResult(symbol, "HOLD", <<0, 1>>, <<0, 1>>, <<0, 1>>)

\* Faulty variant: strict comparisons with 0.6.
ConsensusDecisionMutGt(buy_count, sell_count, total_strategies, avg_confidence) ==
    IF 10 * buy_count > 6 * total_strategies
    THEN <<"BUY", RatMul(avg_confidence, <<buy_count, total_strategies>>)>>
    ELSE IF 10 * sell_count > 6 * total_strategies
    THEN <<"SELL", RatMul(avg_confidence, <<sell_count, total_strategies>>)>>
    ELSE <<"HOLD", <<1, 2>>>>

\* <<action, confidence>> of the counts (total_strategies > 0)
ConsensusDecision(buy_count, sell_count, total_strategies, avg_confidence) ==
    IF 10 * buy_count >= 6 * total_strategies
    THEN <<"BUY", RatMul(avg_confidence, <<buy_count, total_strategies>>)>>
    ELSE IF 10 * sell_count >= 6 * total_strategies
    THEN <<"SELL", RatMul(avg_confidence, <<sell_count, total_strategies>>)>>
    ELSE <<"HOLD", <<1, 2>>>>

\* MultiAIConsensusStrategy.analyze; results are the gathered outcomes of the
\* sub-strategies, one per sub-strategy.
consensus_analyze(symbol, results) ==
    IF results = <<>> THEN NoConsensus(symbol)
    ELSE LET valid_results == ValidResults(results)
             total_strategies == Len(valid_results)
         IN  IF valid_results = <<>> THEN NoConsensus(symbol)
             ELSE LET buy_count == CountAction(valid_results, "BUY")
                      sell_count == CountAction(valid_results, "SELL")
                      avg_confidence ==
                          RatMean([i \in 1..total_strategies |-> valid_results[i].confidence])
                      d == ConsensusDecision(buy_count, sell_count, total_strategies,
                                             avg_confidence)
                      target_prices ==
                          SelectSeq([i \in 1..total_strategies |-> valid_results[i].target_price],
                                    LAMBDA p : p[1] > 0)
                      stop_losses ==
                          SelectSeq([i \in 1..total_strategies |-> valid_results[i].stop_loss],
                                    LAMBDA p : p[1] > 0)
                  IN  StrategyResult(symbol, d[1], d[2],
                                     RatMean(target_prices), RatMean(stop_losses))

\* Inputs: what gather returns for one sub-strategy
MaxStrategies == 5

GatheredResults ==
    { Raise("Exception"),
      Return([reasoning |-> "object"]),
      Return(StrategyResult("AAA", "BUY", <<9, 10>>, <<110, 1>>, <<95, 1>>)),
      Return(StrategyResult("AAA", "BUY", <<2, 10>>, <<0, 1>>, <<0, 1>>)),
      Return(StrategyResult("AAA", "SELL", <<9, 10>>, <<90, 1>>, <<105, 1>>)),
      Return(StrategyResult("AAA", "HOLD", <<3, 10>>, <<100, 1>>, <<98, 1>>)) }

----------------------------------------------------------------------------
(* app_main: calculate_consensus and get_ai_consensus_analysis *)

\* A text is the sequence of its characters, written in pinyin.  The five
\* keys of the recommendations dict, in its insertion order.
StrongBuy == <<"qiang2", "li4", "mai3", "ru4">>
Buy == <<"mai3", "ru4">>
Hold == <<"chi2", "you3">>
Reduce == <<"jian3", "chi2">>
Sell == <<"mai4", "chu1">>
LabelKeys == <<StrongBuy, Buy, Hold, Reduce, Sell>>

\* key in rec: key is a substring of rec
Contains(key, rec) ==
    \E i \in 0..(Len(rec) - Len(key)) : SubSeq(rec, i + 1, i + Len(key)) = key

\* Faulty variant: no break, the last key contained in rec is the one kept.
MatchedKeyMutLast(rec) ==
    IF \E k \in 1..5 : Contains(LabelKeys[k], rec)
    THEN CHOOSE k \in 1..5 :
             /\ Contains(LabelKeys[k], rec)
             /\ \A j \in (k + 1)..5 : ~Contains(LabelKeys[j], rec)
    ELSE 0

\* The inner loop with its break: the index of the first key contained in
\* rec, 0 when rec contains none.
MatchedKey(rec) ==
    IF \E k \in 1..5 : Contains(LabelKeys[k], rec)
    THEN CHOOSE k \in 1..5 :
             /\ Contains(LabelKeys[k], rec)
             /\ \A j \in 1..(k - 1) : ~Contains(LabelKeys[j], rec)
    ELSE 0

\* recommendations after the loop over analyses.values()
Distribution(analyses) ==
    [k \in 1..5 |->
        Cardinality({i \in 1..Len(analyses) :
                        MatchedKey(DictGet(analyses[i], "recommendation", Hold)) = k})]

\* Faulty variant: the last of the keys with the most votes.
ConsensusKeyMutLast(recommendations) ==
    CHOOSE k \in 1..5 :
        /\ \A j \in 1..5 : recommendations[j] <= recommendations[k]
        /\ \A j \in (k + 1)..5 : recommendations[j] # recommendations[k]

\* [k for k, v in recommendations.items() if v == max_votes][0]
\* with max_votes = max(recommendations.values())
ConsensusKey(recommendations) ==
    CHOOSE k \in 1..5 :
        /\ \A j \in 1..5 : recommendations[j] <= recommendations[k]
        /\ \A j \in 1..(k - 1) : recommendations[j] # recommendations[k]

ConsensusReport(consensus, recommendations, target, confidence, count) ==
    [consensus_recommendation |-> consensus,
     recommendation_distribution |-> recommendations,
     average_target_price |-> target,
     average_confidence |-> confidence,
     model_count |-> count]

\* calculate_consensus; analyses is the sequence of the dict's values.
calculate_consensus(analyses) ==
    IF analyses = <<>>
    THEN ConsensusReport(Hold, [k \in 1..5 |-> IF k = 3 THEN 1 ELSE 0],
                         <<0, 1>>, <<0, 1>>, 0)
    ELSE LET recommendations == Distribution(analyses)
             target_prices ==
                 [i \in 1..Len(analyses) |-> DictGet(analyses[i], "target_price", <<0, 1>>)]
             confidences ==
                 [i \in 1..Len(analyses) |-> DictGet(analyses[i], "confidence", <<0, 1>>)]
         IN  ConsensusReport(LabelKeys[ConsensusKey(recommendations)], recommendations,
                             RatMean(target_prices), RatMean(confidences), Len(analyses))

\* OfflineMode.get_ai_analysis of quantum_trading_complete; the fallback
\* class OfflineMode of app_main has no such method.
offline_analysis(offline_mode) ==
    IF offline_mode = "stub" THEN Raise("AttributeError")
    ELSE Return([recommendation |-> Hold, confidence |-> <<7, 10>>])

\* Faulty variant: a model whose analysis raised is left out.
RECURSIVE CollectAnalysesMutSkip(_, _)
CollectAnalysesMutSkip(models, offline_mode) ==
    IF models = <<>> THEN Return(<<>>)
    ELSE LET enabled == Head(models)[1]
             analysis == Head(models)[2]
             rest == CollectAnalysesMutSkip(Tail(models), offline_mode)
         IN  IF ~enabled \/ Raised(analysis) THEN rest
             ELSE Return(<<Val(analysis)>> \o Val(rest))

\* The loop of get_ai_consensus_analysis over self.ai_models: models is the
\* sequence of <<enabled, outcome of get_single_model_analysis>>.  The
\* outcome is the analyses gathered, or the exception of the except branch.
RECURSIVE CollectAnalyses(_, _)
CollectAnalyses(models, offline_mode) ==
    IF models = <<>> THEN Return(<<>>)
    ELSE LET enabled == Head(models)[1]
             analysis == Head(models)[2]
             rest == CollectAnalyses(Tail(models), offline_mode)
             entry == IF Raised(analysis) THEN offline_analysis(offline_mode) ELSE analysis
         IN  IF ~enabled THEN rest
             ELSE IF Raised(entry) THEN entry
             ELSE IF Raised(rest) THEN rest
             ELSE Return(<<Val(entry)>> \o Val(rest))

get_ai_consensus_analysis(models, offline_mode) ==
    LET analyses == CollectAnalyses(models, offline_mode)
    IN  IF Raised(analyses) THEN analyses
        ELSE Return(calculate_consensus(Val(analyses)))

\* Inputs: analyses of calculate_consensus
MaxModels == 3

\* The texts of a recommendation: the five labels, a text without any of
\* them ("watch") and a text with two of them ("hold after buying").
Recommendations ==
    {StrongBuy, Buy, Hold, Reduce, Sell, <<"guan1", "wang4">>,
     <<"mai3", "ru4", "hou4", "chi2", "you3">>}

Analyses ==
    {[recommendation |-> r, target_price |-> <<100, 1>>, confidence |-> <<8, 10>>] :
        r \in Recommendations}
    \cup {[reasoning |-> "none"], [recommendation |-> Hold, confidence |-> <<7, 10>>]}

\* Inputs: the four models of setup_ai_models
ModelCount == 4

ModelOutcomes ==
    {Raise("Exception")}
    \cup {Return([recommendation |-> r, target_price |-> <<100, 1>>,
                  confidence |-> <<8, 10>>]) : r \in {Buy, Hold, Sell}}

----------------------------------------------------------------------------
(* risk_engine: the six checks and validate_trade_signal *)

\* PositionTracker, PerformanceMonitor, MarketAnalyzer as shipped.
CurrentPositions == <<50000, 75000, 100000>>
get_portfolio_value == 500000
get_daily_pnl == 15000
get_market_condition == [volatility |-> 30, sentiment |-> 60]

\* AIRiskEngine.__init__: the default risk_params, ratios in percent (the
\* portfolio value is a multiple of 100, so value * ratio / 100 is exact).
DefaultRiskParams ==
    [max_position_ratio |-> 10, max_portfolio_risk |-> 30, daily_loss_limit |-> 3]

\* risk_params[key]: a missing key raises KeyError.
ParamRaises(v) == v = Missing

CheckResult(passed, message) == [passed |-> passed, message |-> message]

\* The bodies of the checks, inside their try blocks.
position_limit_body(signal, market_data, risk_params) ==
    LET positions == SumSeq(CurrentPositions)
        new_position_value ==
            IF signal.action = "BUY"
            THEN positions + signal.quantity * GetOrZero(market_data.current_price)
            ELSE positions
    IN  IF ParamRaises(risk_params.max_portfolio_risk) THEN Raise("KeyError")
        ELSE LET passed == new_position_value * 100
                             <= get_portfolio_value * (100 + risk_params.max_portfolio_risk)
             IN  Return(CheckResult(passed, IF passed THEN "ok" ELSE "limit"))

daily_loss_limit_body(risk_params) ==
    IF ParamRaises(risk_params.daily_loss_limit) THEN Raise("KeyError")
    ELSE LET passed == get_daily_pnl * 100
                         >= 0 - (get_portfolio_value * risk_params.daily_loss_limit)
         IN  Return(CheckResult(passed, IF passed THEN "ok" ELSE "limit"))

sector_exposure_body == Return(CheckResult(TRUE, "ok"))

market_condition_body ==
    LET market_condition == get_market_condition
    IN  IF market_condition.volatility > 50 THEN Return(CheckResult(FALSE, "limit"))
        ELSE IF market_condition.sentiment < 20 THEN Return(CheckResult(FALSE, "limit"))
        ELSE Return(CheckResult(TRUE, "ok"))

\* The module imports pandas only: the name np in the volatility
\* computation is unbound and evaluating it raises NameError.
volatility_body(market_data) ==
    IF market_data.bars # Missing /\ market_data.bars > 20
    THEN Raise("NameError")
    ELSE Return(CheckResult(TRUE, "insufficient"))

\* Faulty variant: the comparison without the guard on volume.
LiquidityShortMutNoGuard(volume, required_liquidity) ==
    required_liquidity * 100 > volume

\* volume > 0 and required_liquidity > volume * 0.01
LiquidityShort(volume, required_liquidity) ==
    volume > 0 /\ required_liquidity * 100 > volume

liquidity_body(signal, market_data) ==
    LET volume == GetOrZero(market_data.volume)
        required_liquidity == signal.quantity * GetOrZero(market_data.current_price)
    IN  IF LiquidityShort(volume, required_liquidity)
        THEN Return(CheckResult(FALSE, "limit"))
        ELSE Return(CheckResult(TRUE, "ok"))

\* Faulty variant: no except branch, the exception propagates.
CatchCheckMutPropagate(body) == body

\* try: body / except Exception as e: {'passed': False, 'message': error text}
CatchCheck(body) ==
    IF Raised(body) THEN Return(CheckResult(FALSE, "error")) ELSE body

check_position_limit(signal, market_data, risk_params) ==
    CatchCheck(position_limit_body(signal, market_data, risk_params))
check_daily_loss_limit(risk_params) == CatchCheck(daily_loss_limit_body(risk_params))
check_sector_exposure == CatchCheck(sector_exposure_body)
check_market_condition == CatchCheck(market_condition_body)
check_volatility(market_data) == CatchCheck(volatility_body(market_data))
check_liquidity(signal, market_data) == CatchCheck(liquidity_body(signal, market_data))

\* Faulty variant: max_shares returned without the min.
MinQuantityMutMaxShares(quantity, max_single_position, current_price) ==
    Rat(max_single_position, current_price)

\* min(signal.quantity, max_shares), max_shares = max_single_position / price
MinQuantity(quantity, max_single_position, current_price) ==
    LET max_shares == Rat(max_single_position, current_price)
    IN  IF RatLt(max_shares, <<quantity, 1>>) THEN max_shares ELSE <<quantity, 1>>

\* Faulty variant: the guard tests current_price != 0.
PriceUsableMutNonZero(current_price) == current_price # 0

\* The guard on current_price of calculate_max_position.
PriceUsable(current_price) == current_price > 0

calculate_max_position(signal, market_data, risk_params) ==
    IF ParamRaises(risk_params.max_position_ratio) THEN Raise("KeyError")
    ELSE LET max_single_position ==
                 (get_portfolio_value * risk_params.max_position_ratio) \div 100
             current_price == GetOrZero(market_data.current_price)
         IN  IF PriceUsable(current_price)
             THEN Return(MinQuantity(signal.quantity, max_single_position, current_price))
             ELSE Return(<<signal.quantity, 1>>)

RiskAssessment(is_approved, risk_level, rejection_reason, max_position_size, confidence_score) ==
    [is_approved |-> is_approved, risk_level |-> risk_level,
     rejection_reason |-> rejection_reason,
     max_position_size |-> max_position_size,
     confidence_score |-> confidence_score]

\* The list of check outcomes, in the order validate_trade_signal builds it.
CheckOutcomes(signal, market_data, risk_params) ==
    << check_position_limit(signal, market_data, risk_params),
       check_daily_loss_limit(risk_params),
       check_sector_exposure,
       check_market_condition,
       check_volatility(market_data),
       check_liquidity(signal, market_data) >>

FailedCount(cs) == Cardinality({i \in 1..Len(cs) : ~cs[i].passed})

\* Faulty variant: strict comparison with 0.5.
RiskTooHighMutGt(failed, n) == 2 * failed > n

\* risk_score >= 0.5, risk_score = failed / len(checks)
RiskTooHigh(failed, n) == 2 * failed >= n

\* Faulty variant: LOW only when no check failed.
RiskLevelMutStrict(failed, n) == IF failed = 0 THEN "LOW" ELSE "MEDIUM"

\* "LOW" if risk_score < 0.2 else "MEDIUM"
RiskLevel(failed, n) == IF 10 * failed < 2 * n THEN "LOW" ELSE "MEDIUM"

\* except Exception as e: of validate_trade_signal
EvaluationError == RiskAssessment(FALSE, "HIGH", "error", <<0, 1>>, <<0, 1>>)

CatchValidate(outcome) ==
    IF Raised(outcome) THEN Return(EvaluationError) ELSE outcome

\* The body of validate_trade_signal, given the outcomes of the six checks:
\* <<outcome, checks>>.
validate_body(signal, market_data, risk_params) ==
    LET outcomes == CheckOutcomes(signal, market_data, risk_params)
    IN  IF \E i \in 1..Len(outcomes) : Raised(outcomes[i])
        THEN <<Raise("check"), <<>>>>
        ELSE LET cs == [i \in 1..Len(outcomes) |-> Val(outcomes[i])]
                 failed == FailedCount(cs)
                 n == Len(cs)
                 max_position == calculate_max_position(signal, market_data, risk_params)
             IN  IF RiskTooHigh(failed, n)
                 THEN <<Return(RiskAssessment(FALSE, "HIGH", "threshold", <<0, 1>>,
                                              <<n - failed, n>>)), cs>>
                 ELSE IF Raised(max_position) THEN <<max_position, cs>>
                 ELSE <<Return(RiskAssessment(TRUE, RiskLevel(failed, n), "",
                                              Val(max_position), <<n - failed, n>>)), cs>>

validate_trade_signal(signal, market_data, risk_params) ==
    LET b == validate_body(signal, market_data, risk_params)
    IN  <<CatchValidate(b[1]), b[2]>>

\* Inputs of the risk gate
Quantities == {0, 100, 10000}
RiskPrices == {0 - 50, 0, 50, 100}
RiskBars == {Missing, 20, 21}
Volumes == {Missing, 1000000, 100000000}

RiskInputs ==
    [ signal : [action : Actions, quantity : Quantities],
      market_data : [current_price : RiskPrices, bars : RiskBars, volume : Volumes],
      risk_params : [max_position_ratio : {Missing, 10, 20},
                     max_portfolio_risk : {Missing, 30},
                     daily_loss_limit : {Missing, 3}] ]

----------------------------------------------------------------------------
(* upgrade_management: UpgradeStateManager *)

\* A timestamp is None or the time of the call that wrote it; the value of
\* datetime.now() is not modelled.  project_info and session_history, which
\* start_module and complete_module never touch, are left out.
ModuleRecord(status, started_at, completed_at) ==
    [status |-> status, started_at |-> started_at, completed_at |-> completed_at]

PendingModule == ModuleRecord("pending", "None", "None")

\* _initialize_state: the state of a manager that found no state file.
initialize_state ==
    [upgrade_phases |->
        [phase_1 |->
            [status |-> "pending",
             modules |-> [multimodal_ai |-> PendingModule,
                          adaptive_learning |-> PendingModule,
                          auto_reporting |-> PendingModule,
                          workflow_orchestration |-> PendingModule]],
         phase_2 |->
            [status |-> "pending",
             modules |-> [open_api |-> PendingModule,
                          multi_agent |-> PendingModule,
                          causal_reasoning |-> PendingModule,
                          user_profiling |-> PendingModule]]],
     current_phase |-> "phase_1",
     current_module |-> "None",
     last_updated |-> "time"]

\* _save_state: the state is written to the file with a new last_updated.
save_state(st) == [st EXCEPT !.last_updated = "time"]

\* The two membership tests of start_module and complete_module.
KnownModule(st, phase, module) ==
    /\ phase \in DOMAIN st.upgrade_phases
    /\ module \in DOMAIN st.upgrade_phases[phase].modules

start_module(st, phase, module) ==
    IF KnownModule(st, phase, module)
    THEN save_state([st EXCEPT
             !.upgrade_phases[phase].modules[module].status = "in_progress",
             !.upgrade_phases[phase].modules[module].started_at = "time",
             !.upgrade_phases[phase].status = "in_progress",
             !.current_phase = phase,
             !.current_module = module])
    ELSE st

\* Faulty variant: any() in place of all().
AllCompletedMutAny(phase_data) ==
    \E module \in DOMAIN phase_data.modules :
        phase_data.modules[module].status = "completed"

\* all(module["status"] == "completed" for module in modules.values())
AllCompleted(phase_data) ==
    \A module \in DOMAIN phase_data.modules :
        phase_data.modules[module].status = "completed"

\* _check_phase_completion
check_phase_completion(st, phase) ==
    IF AllCompleted(st.upgrade_phases[phase])
    THEN save_state([st EXCEPT !.upgrade_phases[phase].status = "completed"])
    ELSE st

complete_module(st, phase, module) ==
    IF KnownModule(st, phase, module)
    THEN check_phase_completion(
             save_state([st EXCEPT
                 !.upgrade_phases[phase].modules[module].status = "completed",
                 !.upgrade_phases[phase].modules[module].completed_at = "time"]),
             phase)
    ELSE st

\* Inputs: the names the callers pass.  Every module of phase_1 and one
\* module of phase_2 are named, with a phase and a module that do not exist.
CalledPhases == {"phase_1", "phase_2", "phase_3"}
CalledModules ==
    {"multimodal_ai", "adaptive_learning", "auto_reporting", "workflow_orchestration",
     "open_api", "unknown_module"}

----------------------------------------------------------------------------
(* ai_trading_engine: AITradingEngine.start and stop *)

\* Inputs: the config dict.  check_interval is a number of seconds, is
\* absent (60 is used) or is a value asyncio.sleep rejects with TypeError.
EngineConfigs ==
    {<<>>, [check_interval |-> "seconds"], [check_interval |-> "invalid"]}

\* await asyncio.sleep(self.config.get('check_interval', 60)) raises before
\* it suspends when the delay is no number.
SleepRaises(config) == DictGet(config, "check_interval", "seconds") = "invalid"

\* Where one pass through the loop body suspends: in the sleep of the try
\* block, or, when that sleep raises, in the sleep of the except branch.
SuspendedAt(config) == IF SleepRaises(config) THEN "sleep_after_error" ELSE "sleep"

\* Faulty variant: while True.
LoopContinuesMutAlways(flag) == TRUE

\* while self.running:
LoopContinues(flag) == flag

\* Bounds of the history counters
MaxStops == 3
MaxIterations == 3

Capped(n) == IF n < MaxIterations THEN n + 1 ELSE n

----------------------------------------------------------------------------
(* The state machine: Init draws the call and its inputs, one action per   *)
(* operation applies it.                                                   *)

NoResult == Return("none")

\* AITradingEngine.__init__: running is False; nothing has been called yet.
EngineConstructed ==
    /\ running = FALSE
    /\ stops_before = 0
    /\ stops_after = 0
    /\ iterations = 0
    /\ iterations_after_stop = 0

\* The TradeSignal objects the caller hands to the operation by reference
\* (args keeps their values at the time of the call).
PassedObjects ==
    CASE op = "fuse_signals" -> args
      [] op \in {"apply_risk_filters", "validate_trade_signal"} -> <<args.signal>>
      [] OTHER -> <<>>

InitFuse ==
    /\ op = "fuse_signals"
    /\ args \in SignalLists

InitValidate ==
    /\ op = "validate_trade_signal"
    /\ args \in RiskInputs

InitTechnical ==
    /\ op = "technical_analysis"
    /\ args \in [symbol : Symbols,
                 market_data : [current_price : {100}, price_data : PriceDatas],
                 weights : {DefaultWeights}]

InitTechnicalWith ==
    /\ op = "technical_analysis_with"
    /\ args \in [symbol : {"AAA"},
                 indicators : {Raise("KeyError")} \cup {Return(i) : i \in IndicatorSets},
                 weights : {[DefaultWeights EXCEPT !.technical = w] : w \in {Missing, 0, 25, 100}}]

InitGenerate ==
    /\ op = "generate_single_signal"
    /\ args \in [symbol : {"AAA"}, market : Markets, weights : PipelineWeights,
                 fundamental_score : FundamentalScores,
                 sentiment_score : SentimentScores, ai_result : AIResults]

StrategyInputs ==
    [symbol : Symbols, market_data : [price_data : PriceDatas], macd_above : BOOLEAN]

InitMomentum ==
    /\ op = "momentum_analyze"
    /\ args \in StrategyInputs

InitMeanReversion ==
    /\ op = "mean_reversion_analyze"
    /\ args \in StrategyInputs

InitConstruct ==
    /\ op = "SignalGenerator"
    /\ args \in [config : {[ai_models |-> <<>>]}
                          \cup {[weights |-> w] :
                                   w \in [technical : {0, 25, 50}, fundamental : {30, 50},
                                          sentiment : {15, 50}, ai : {0, 30, 50}]}]

InitIndicators ==
    /\ op = "calculate_technical_indicators"
    /\ args \in [price_data : PriceDatas, macd_above : BOOLEAN]

InitFilter ==
    /\ op = "apply_risk_filters"
    /\ args \in [signal : {TradeSignal("AAA", a, c, Price(108), Price(st), "") :
                              a \in Actions, c \in {<<0, 1>>, <<1, 2>>, <<1, 1>>},
                              st \in {0, 84, 85, 98, 115, 116}},
                 market_data : [current_price : {Missing, 0 - 50, 0, 100}]]

InitConsensus ==
    /\ op = "consensus_analyze"
    /\ args \in [symbol : {"AAA"},
                 results : UNION { [1..n -> GatheredResults] : n \in 0..MaxStrategies }]

InitCalculateConsensus ==
    /\ op = "calculate_consensus"
    /\ args \in [analyses : UNION { [1..n -> Analyses] : n \in 0..MaxModels }]

InitGenerateAll ==
    /\ op = "generate_trade_signals"
    /\ args \in [runs : UNION { [1..n -> SymbolRuns] : n \in 0..MaxSymbols },
                 weights : {DefaultWeights}]

InitGetConsensus ==
    /\ op = "get_ai_consensus_analysis"
    /\ args \in [models : [1..ModelCount -> BOOLEAN \X ModelOutcomes], offline_mode : {"complete", "stub"}]

Init ==
    /\ pc = "call"
    /\ ret = NoResult
    /\ checks = <<>>
    /\ \/ InitFuse
       \/ InitValidate
       \/ InitTechnical
       \/ InitTechnicalWith
       \/ InitGenerate
       \/ InitMomentum
       \/ InitMeanReversion
       \/ InitConstruct
       \/ InitIndicators
       \/ InitFilter
       \/ InitConsensus
       \/ InitCalculateConsensus
       \/ InitGetConsensus
       \/ InitGenerateAll
    /\ objects = PassedObjects
    /\ fuser_calls = <<>>
    /\ state = initialize_state
    /\ EngineConstructed

FuseSignals ==
    /\ pc = "call"
    /\ op = "fuse_signals"
    /\ ret' = Return(fuse_signals(args))
    /\ fuser_calls' = <<args>>
    /\ pc' = "done"
    /\ UNCHANGED <<op, args, checks, objects>>
    /\ UNCHANGED <<manager_vars, engine_vars>>

ValidateTradeSignal ==
    /\ pc = "call"
    /\ op = "validate_trade_signal"
    /\ LET r == validate_trade_signal(args.signal, args.market_data, args.risk_params)
       IN  ret' = r[1] /\ checks' = r[2]
    /\ pc' = "done"
    /\ UNCHANGED <<op, args, objects, fuser_calls>>
    /\ UNCHANGED <<manager_vars, engine_vars>>

TechnicalAnalysis ==
    /\ pc = "call"
    /\ op = "technical_analysis"
    /\ ret' = technical_analysis(args.symbol, args.market_data, args.weights)
    /\ pc' = "done"
    /\ UNCHANGED <<op, args, checks, objects, fuser_calls>>
    /\ UNCHANGED <<manager_vars, engine_vars>>

TechnicalAnalysisWith ==
    /\ pc = "call"
    /\ op = "technical_analysis_with"
    /\ ret' = technical_analysis_with(args.symbol, args.indicators, args.weights)
    /\ pc' = "done"
    /\ UNCHANGED <<op, args, checks, objects, fuser_calls>>
    /\ UNCHANGED <<manager_vars, engine_vars>>

GenerateSingleSignal ==
    /\ pc = "call"
    /\ op = "generate_single_signal"
    /\ ret' = generate_single_signal(args.symbol, args.market, args.weights,
                                     args.fundamental_score, args.sentiment_score,
                                     args.ai_result)
    /\ fuser_calls' = generate_fuser_calls(args.symbol, args.market, args.weights,
                                           args.fundamental_score, args.sentiment_score,
                                           args.ai_result)
    /\ pc' = "done"
    /\ UNCHANGED <<op, args, checks, objects>>
    /\ UNCHANGED <<manager_vars, engine_vars>>

MomentumAnalyze ==
    /\ pc = "call"
    /\ op = "momentum_analyze"
    /\ ret' = momentum_analyze(args.symbol, args.market_data, args.macd_above)
    /\ pc' = "done"
    /\ UNCHANGED <<op, args, checks, objects, fuser_calls>>
    /\ UNCHANGED <<manager_vars, engine_vars>>

MeanReversionAnalyze ==
    /\ pc = "call"
    /\ op = "mean_reversion_analyze"
    /\ ret' = mean_reversion_analyze(args.symbol, args.market_data, args.macd_above)
    /\ pc' = "done"
    /\ UNCHANGED <<op, args, checks, objects, fuser_calls>>
    /\ UNCHANGED <<manager_vars, engine_vars>>

Construct ==
    /\ pc = "call"
    /\ op = "SignalGenerator"
    /\ ret' = signal_generator_init(args.config)
    /\ pc' = "done"
    /\ UNCHANGED <<op, args, checks, objects, fuser_calls>>
    /\ UNCHANGED <<manager_vars, engine_vars>>

CalculateTechnicalIndicators ==
    /\ pc = "call"
    /\ op = "calculate_technical_indicators"
    /\ ret' = calculate_technical_indicators(args.price_data, args.macd_above)
    /\ pc' = "done"
    /\ UNCHANGED <<op, args, checks, objects, fuser_calls>>
    /\ UNCHANGED <<manager_vars, engine_vars>>

ApplyRiskFilters ==
    /\ pc = "call"
    /\ op = "apply_risk_filters"
    /\ ret' = apply_risk_filters(args.signal, args.market_data)
    /\ objects' = <<risk_filtered_object(args.signal, args.market_data)>>
    /\ pc' = "done"
    /\ UNCHANGED <<op, args, checks, fuser_calls>>
    /\ UNCHANGED <<manager_vars, engine_vars>>

ConsensusAnalyze ==
    /\ pc = "call"
    /\ op = "consensus_analyze"
    /\ ret' = Return(consensus_analyze(args.symbol, args.results))
    /\ pc' = "done"
    /\ UNCHANGED <<op, args, checks, objects, fuser_calls>>
    /\ UNCHANGED <<manager_vars, engine_vars>>

CalculateConsensus ==
    /\ pc = "call"
    /\ op = "calculate_consensus"
    /\ ret' = Return(calculate_consensus(args.analyses))
    /\ pc' = "done"
    /\ UNCHANGED <<op, args, checks, objects, fuser_calls>>
    /\ UNCHANGED <<manager_vars, engine_vars>>

GetAIConsensusAnalysis ==
    /\ pc = "call"
    /\ op = "get_ai_consensus_analysis"
    /\ ret' = get_ai_consensus_analysis(args.models, args.offline_mode)
    /\ pc' = "done"
    /\ UNCHANGED <<op, args, checks, objects, fuser_calls>>
    /\ UNCHANGED <<manager_vars, engine_vars>>

GenerateTradeSignals ==
    /\ pc = "call"
    /\ op = "generate_trade_signals"
    /\ ret' = generate_trade_signals(args.runs, args.weights)
    /\ pc' = "done"
    /\ UNCHANGED <<op, args, checks, objects, fuser_calls>>
    /\ UNCHANGED <<manager_vars, engine_vars>>

Next ==
    \/ FuseSignals
    \/ GenerateTradeSignals
    \/ MomentumAnalyze
    \/ MeanReversionAnalyze
    \/ Construct
    \/ CalculateTechnicalIndicators
    \/ ApplyRiskFilters
    \/ ConsensusAnalyze
    \/ CalculateConsensus
    \/ GetAIConsensusAnalysis
    \/ GenerateSingleSignal
    \/ TechnicalAnalysis
    \/ TechnicalAnalysisWith
    \/ ValidateTradeSignal

Spec == Init /\ [][Next]_vars

----------------------------------------------------------------------------
(* The state machine of one UpgradeStateManager: any sequence of           *)
(* start_module and complete_module calls from the initial state.          *)

UpgradeInit ==
    /\ pc = "ready"
    /\ op = "UpgradeStateManager"
    /\ args = <<>>
    /\ ret = NoResult
    /\ checks = <<>>
    /\ objects = <<>>
    /\ fuser_calls = <<>>
    /\ state = initialize_state
    /\ EngineConstructed

StartModule ==
    /\ \E phase \in CalledPhases, module \in CalledModules :
           state' = start_module(state, phase, module)
    /\ UNCHANGED <<call_vars, engine_vars>>

CompleteModule ==
    /\ \E phase \in CalledPhases, module \in CalledModules :
           state' = complete_module(state, phase, module)
    /\ UNCHANGED <<call_vars, engine_vars>>

UpgradeNext ==
    \/ StartModule
    \/ CompleteModule

UpgradeSpec == UpgradeInit /\ [][UpgradeNext]_vars

----------------------------------------------------------------------------
(* The state machine of one AITradingEngine whose start() has been         *)
(* scheduled on the event loop: pc is the position of that coroutine.      *)
(* Coroutines interleave at their awaits only; stop() has none.            *)

EngineInit ==
    /\ pc = "created"
    /\ op = "start"
    /\ args \in [config : EngineConfigs]
    /\ ret = NoResult
    /\ checks = <<>>
    /\ objects = <<>>
    /\ fuser_calls = <<>>
    /\ state = initialize_state
    /\ EngineConstructed

\* start() runs from its first line to the first await.
StartRuns ==
    /\ pc = "created"
    /\ running' = TRUE
    /\ pc' = SuspendedAt(args.config)
    /\ UNCHANGED <<op, args, ret, checks, objects, fuser_calls, manager_vars,
                   stops_before, stops_after, iterations, iterations_after_stop>>

\* The sleep start() is suspended in completes: the loop condition is
\* tested, and start() suspends in the next pass or returns.
SleepCompletes ==
    /\ pc \in {"sleep", "sleep_after_error"}
    /\ iterations' = Capped(iterations)
    /\ iterations_after_stop' =
           IF stops_after > 0 THEN Capped(iterations_after_stop) ELSE iterations_after_stop
    /\ IF LoopContinues(running)
       THEN pc' = SuspendedAt(args.config) /\ ret' = ret
       ELSE pc' = "returned" /\ ret' = Return("None")
    /\ UNCHANGED <<op, args, checks, objects, fuser_calls, manager_vars,
                   running, stops_before, stops_after>>

\* stop() is called, before start() has run, while it sleeps or after it
\* has returned.
Stop ==
    /\ stops_before + stops_after < MaxStops
    /\ running' = FALSE
    /\ IF pc = "created"
       THEN stops_before' = stops_before + 1 /\ stops_after' = stops_after
       ELSE stops_after' = stops_after + 1 /\ stops_before' = stops_before
    /\ UNCHANGED <<call_vars, manager_vars, iterations, iterations_after_stop>>

EngineNext ==
    \/ StartRuns
    \/ SleepCompletes
    \/ Stop

\* The event loop runs a scheduled coroutine and every sleep ends.
EngineSpec ==
    EngineInit /\ [][EngineNext]_vars /\ WF_vars(StartRuns) /\ WF_vars(SleepCompletes)

----------------------------------------------------------------------------
(* Claims about fuse_signals *)

FuseDone == pc = "done" /\ op = "fuse_signals"
Threshold == <<6, 10>>

\* C1: for a non-empty list with total confidence > 0 the fused signal is
\* BUY with confidence buy_ratio when buy_ratio >= 0.6, SELL with confidence
\* sell_ratio when sell_ratio >= 0.6, HOLD with confidence 0.5 otherwise;
\* buy_ratio >= 0.6 never gives SELL.
C1_FuseDecisionRule ==
    (FuseDone /\ args # <<>> /\ TotalConfidence(args) > 0) =>
        LET total == TotalConfidence(args)
            buy_ratio == <<ScoreOf(args, "BUY"), total>>
            sell_ratio == <<ScoreOf(args, "SELL"), total>>
            r == Val(ret)
        IN  /\ Returned(ret)
            /\ RatGeq(buy_ratio, Threshold) =>
                   r.action = "BUY" /\ r.action # "SELL" /\ RatEq(r.confidence, buy_ratio)
            /\ RatGeq(sell_ratio, Threshold) =>
                   r.action = "SELL" /\ RatEq(r.confidence, sell_ratio)
            /\ (~RatGeq(buy_ratio, Threshold) /\ ~RatGeq(sell_ratio, Threshold)) =>
                   r.action = "HOLD" /\ RatEq(r.confidence, <<1, 2>>)

\* Scenario B, [BUY 0.25, BUY 0.30, HOLD 0, SELL 0.15], fused to BUY 0.55/0.70.
C1_Witness ==
    /\ FuseDone
    /\ Len(args) = 4
    /\ [i \in 1..4 |-> args[i].action] = <<"BUY", "BUY", "HOLD", "SELL">>
    /\ [i \in 1..4 |-> args[i].confidence[1]] = <<2500, 3000, 0, 1500>>
    /\ Val(ret).action = "BUY"
    /\ RatEq(Val(ret).confidence, <<55, 70>>)

\* C9: fuse_signals returns HOLD with confidence 0 for the empty list and for
\* a non-empty list whose confidences sum to 0, and then with the symbol of
\* the first signal.
C9_FuseDegenerate ==
    FuseDone =>
        /\ args = <<>> =>
               Val(ret).action = "HOLD" /\ RatEq(Val(ret).confidence, <<0, 1>>)
        /\ (args # <<>> /\ TotalConfidence(args) = 0) =>
               /\ Val(ret).action = "HOLD"
               /\ RatEq(Val(ret).confidence, <<0, 1>>)
               /\ Val(ret).symbol = args[1].symbol

\* A zero-confidence list whose first and last symbols differ.
C9_Witness ==
    /\ FuseDone
    /\ Len(args) >= 2
    /\ TotalConfidence(args) = 0
    /\ args[1].symbol # args[Len(args)].symbol
    /\ Val(ret).action = "HOLD"
    /\ Val(ret).symbol = args[1].symbol

----------------------------------------------------------------------------
(* Claims about the risk gate *)

ValidateDone == pc = "done" /\ op = "validate_trade_signal"
Approved == ValidateDone /\ Returned(ret) /\ Val(ret).is_approved
RatMin(a, b) == IF RatLt(b, a) THEN b ELSE a

\* The bodies of the six checks on the inputs of the call.
CheckBodies ==
    << position_limit_body(args.signal, args.market_data, args.risk_params),
       daily_loss_limit_body(args.risk_params),
       sector_exposure_body,
       market_condition_body,
       volatility_body(args.market_data),
       liquidity_body(args.signal, args.market_data) >>

PositionSizeRaises ==
    Raised(calculate_max_position(args.signal, args.market_data, args.risk_params))

C3_NeverGrows ==
    Approved => RatLeq(Val(ret).max_position_size, <<args.signal.quantity, 1>>)

\* An approval that shrinks the requested size.
C3_Witness ==
    /\ Approved
    /\ args.market_data.current_price > 0
    /\ RatLt(Val(ret).max_position_size, <<args.signal.quantity, 1>>)

\* The value the formula min(quantity, portfolio_value * ratio / price) has
\* for a price other than 0 (ratio in percent).
ClaimedMaxPosition ==
    RatMin(<<args.signal.quantity, 1>>,
           Rat((get_portfolio_value * args.risk_params.max_position_ratio) \div 100,
               args.market_data.current_price))

\* C4 as stated: on approval max_position_size equals
\* min(quantity, portfolio_value * max_position_ratio / current_price) for
\* every input (read at every price for which the quotient exists).
C4_Original ==
    (Approved /\ args.market_data.current_price # 0) =>
        RatEq(Val(ret).max_position_size, ClaimedMaxPosition)

\* C4 amended: on approval max_position_size equals
\* min(quantity, portfolio_value * max_position_ratio / current_price) when
\* current_price > 0, and equals signal.quantity when current_price <= 0.
C4_MaxPositionFormula ==
    Approved =>
        /\ args.market_data.current_price > 0 =>
               RatEq(Val(ret).max_position_size, ClaimedMaxPosition)
        /\ args.market_data.current_price <= 0 =>
               Val(ret).max_position_size = <<args.signal.quantity, 1>>

\* Scenario C: quantity 10000, price 50, portfolio 500000, ratio 0.1 -> 1000.
C4_Witness ==
    /\ Approved
    /\ args.signal.quantity = 10000
    /\ args.market_data.current_price = 50
    /\ args.risk_params.max_position_ratio = 10
    /\ get_portfolio_value = 500000
    /\ RatEq(Val(ret).max_position_size, <<1000, 1>>)

RiskScore == <<FailedCount(checks), 6>>
ClaimedLevel == IF RatLt(RiskScore, <<2, 10>>) THEN "LOW" ELSE "MEDIUM"

\* C5 as stated: with fewer than 3 failed checks the signal is approved,
\* LOW if risk_score < 0.2 and MEDIUM otherwise, and in approved and
\* threshold-rejected outcomes confidence_score = 1 - risk_score.
C5_Original ==
    (ValidateDone /\ Returned(ret) /\ Len(checks) = 6) =>
        /\ FailedCount(checks) < 3 =>
               Val(ret).is_approved /\ Val(ret).risk_level = ClaimedLevel
        /\ (Val(ret).is_approved \/ Val(ret).rejection_reason = "threshold") =>
               RatEq(Val(ret).confidence_score, RatOneMinus(RiskScore))

\* C5 amended: with fewer than 3 failed checks the signal is approved (LOW
\* if risk_score < 0.2, MEDIUM otherwise) when the position-size
\* computation returns, and rejected with HIGH and confidence_score 0 when
\* it raises; in approved and threshold-rejected outcomes
\* confidence_score = 1 - risk_score.
C5_ApprovalLevels ==
    (ValidateDone /\ Returned(ret) /\ Len(checks) = 6) =>
        /\ (FailedCount(checks) < 3 /\ ~PositionSizeRaises) =>
               Val(ret).is_approved /\ Val(ret).risk_level = ClaimedLevel
        /\ (FailedCount(checks) < 3 /\ PositionSizeRaises) =>
               /\ ~Val(ret).is_approved
               /\ Val(ret).risk_level = "HIGH"
               /\ RatEq(Val(ret).confidence_score, <<0, 1>>)
        /\ (Val(ret).is_approved \/ Val(ret).rejection_reason = "threshold") =>
               RatEq(Val(ret).confidence_score, RatOneMinus(RiskScore))

\* One failed check, approved LOW with confidence 5/6.
C5_Witness ==
    /\ Approved
    /\ FailedCount(checks) = 1
    /\ Val(ret).risk_level = "LOW"
    /\ RatEq(Val(ret).confidence_score, <<5, 6>>)

\* C6: a check whose body raises is recorded as passed = False with the
\* error text and counted as one failure; the evaluation is not aborted and
\* the other checks still run and contribute to the risk score.
C6_RaisingCheckFailsClosed ==
    (ValidateDone /\ \E i \in 1..6 : Raised(CheckBodies[i])) =>
        /\ Returned(ret)
        /\ Len(checks) = 6
        /\ \A j \in 1..6 :
               IF Raised(CheckBodies[j])
               THEN checks[j] = CheckResult(FALSE, "error")
               ELSE checks[j] = Val(CheckBodies[j])
        /\ Val(ret).rejection_reason = "error" => PositionSizeRaises
        /\ Val(ret).rejection_reason # "error" =>
               RatEq(Val(ret).confidence_score,
                     <<6 - Cardinality({j \in 1..6 : \/ Raised(CheckBodies[j])
                                                       \/ ~Val(CheckBodies[j]).passed}), 6>>)

\* One check raised, another failed on its limit, and the signal was
\* still approved.
C6_Witness ==
    /\ Approved
    /\ Len(checks) = 6
    /\ \E i, j \in 1..6 :
           /\ Raised(CheckBodies[i])
           /\ checks[i] = CheckResult(FALSE, "error")
           /\ checks[j] = CheckResult(FALSE, "limit")

----------------------------------------------------------------------------
(* Claims about the analyzers *)

TechnicalDone == pc = "done" /\ op = "technical_analysis"

IsHoldZero(sig) ==
    sig.action = "HOLD" /\ RatEq(sig.confidence, <<0, 1>>)

FlatBars(n) == PriceData("frame", TRUE, [i \in 1..n |-> 100])

\* C10 as stated: on 20 identical bars with close 100 the technical
\* analyzer returns HOLD with confidence 0.
C10_Original ==
    (TechnicalDone /\ args.market_data.price_data = FlatBars(20)) =>
        /\ Returned(ret)
        /\ Val(ret).action = "HOLD"
        /\ RatEq(Val(ret).confidence, <<0, 1>>)

\* C10 amended: on 20 identical bars with close 100 (sma_20 = sma_50 = 100,
\* rsi = 50, macd = macd_signal = 0) the technical analyzer returns SELL:
\* the score is 0.3, the confidence 0.4 * weight (0.1 with weight 0.25),
\* the target 92 and the stop 106.
C10_FlatSeriesSells ==
    (TechnicalDone /\ args.market_data.price_data = FlatBars(20)) =>
        /\ Returned(ret)
        /\ Val(ret).action = "SELL"
        /\ RatEq(Val(ret).confidence,
                 RatMul(<<4, 10>>, <<args.weights.technical, 100>>))
        /\ RatEq(Val(ret).target_price, <<92, 1>>)
        /\ RatEq(Val(ret).stop_loss, <<106, 1>>)

\* The flat series has been analysed with the default weight 0.25.
C10_Witness ==
    /\ TechnicalDone
    /\ args.market_data.price_data = FlatBars(20)
    /\ args.weights.technical = 25
    /\ Val(calculate_indicators(args.market_data.price_data)).sma_20 = <<2000, 20>>
    /\ TechnicalScore(Val(calculate_indicators(args.market_data.price_data))) = 30
    /\ Val(ret).action = "SELL"
    /\ RatEq(Val(ret).confidence, <<1, 10>>)

StrategyDone == pc = "done" /\ op \in {"momentum_analyze", "mean_reversion_analyze"}

\* Price data missing or fewer than 20 bars.
InsufficientInput ==
    \/ args.market_data.price_data.kind # "frame"
    \/ Len(args.market_data.price_data.closes) < 20

\* The try body of the analyzer that was called.
AnalyzerBody ==
    CASE op = "technical_analysis" ->
             technical_body(args.symbol, args.market_data, args.weights)
      [] op = "momentum_analyze" ->
             momentum_body(args.symbol, args.market_data, args.macd_above)
      [] op = "mean_reversion_analyze" ->
             mean_reversion_body(args.symbol, args.market_data, args.macd_above)

\* C8 as stated: technical_analysis and the two strategy analyzers return
\* HOLD with confidence 0 and never raise when the input is insufficient or
\* an internal error occurs.
C8_Original ==
    (TechnicalDone \/ StrategyDone) =>
        /\ Returned(ret)
        /\ (InsufficientInput \/ Raised(AnalyzerBody)) => IsHoldZero(Val(ret))

\* C8 amended: none of the three raises; technical_analysis returns HOLD
\* with confidence 0 on insufficient input or an internal error; the two
\* strategy analyzers return HOLD with confidence 0 on an internal error
\* (price_data = None included) and HOLD with confidence 0.5 when the price
\* data is absent or has fewer than 20 bars.
C8_DegenerateHold ==
    /\ TechnicalDone =>
           /\ Returned(ret)
           /\ (InsufficientInput \/ Raised(AnalyzerBody)) => IsHoldZero(Val(ret))
    /\ StrategyDone =>
           /\ Returned(ret)
           /\ Raised(AnalyzerBody) => IsHoldZero(Val(ret))
           /\ (InsufficientInput /\ args.market_data.price_data.kind # "none") =>
                  Val(ret).action = "HOLD" /\ RatEq(Val(ret).confidence, <<1, 2>>)

\* A strategy analyzer was given 19 bars.
C8_Witness ==
    /\ StrategyDone
    /\ args.market_data.price_data.kind = "frame"
    /\ Len(args.market_data.price_data.closes) = 19
    /\ Val(ret).action = "HOLD"
    /\ RatEq(Val(ret).confidence, <<1, 2>>)

GenerateDone == pc = "done" /\ op = "generate_single_signal"

GenerateBody ==
    generate_body(args.symbol, args.market, args.weights, args.fundamental_score,
                  args.sentiment_score, args.ai_result)

\* C7: generate_single_signal and validate_trade_signal never propagate an
\* exception: generate_single_signal returns a TradeSignal, HOLD with
\* confidence 0 when the market data is missing or a step raised, and
\* validate_trade_signal returns a RiskAssessment, rejected with HIGH when
\* the position-size computation raised.
C7_NoExceptionEscapes ==
    /\ GenerateDone =>
           /\ Returned(ret)
           /\ Val(ret).action \in Actions
           /\ (Raised(args.market) \/ Raised(GenerateBody)) => IsHoldZero(Val(ret))
           /\ (Returned(args.market) /\ Val(args.market).empty) => IsHoldZero(Val(ret))
    /\ ValidateDone =>
           /\ Returned(ret)
           /\ Val(ret).risk_level \in {"LOW", "MEDIUM", "HIGH"}
           /\ (Len(checks) = 6 /\ FailedCount(checks) < 3 /\ PositionSizeRaises) =>
                  ~Val(ret).is_approved /\ Val(ret).risk_level = "HIGH"

\* The risk filter divided by a current_price of 0 after a raising AI
\* analyzer had been replaced by a HOLD signal.
C7_Witness ==
    /\ GenerateDone
    /\ Returned(args.market)
    /\ ~Val(args.market).empty
    /\ Val(args.market).current_price = 0
    /\ Raised(args.ai_result)
    /\ GenerateBody = Raise("ZeroDivisionError")
    /\ IsHoldZero(Val(ret))

----------------------------------------------------------------------------
(* Claims about the scoring of the technical analyzer *)

TechnicalWithDone == pc = "done" /\ op = "technical_analysis_with"

\* The score the rule gives for the indicator set of the call, in hundredths.
ClaimedScore ==
    LET ind == Val(args.indicators)
    IN  50
        + (IF RatGt(ind.sma_20, ind.sma_50) THEN 10 ELSE 0 - 10)
        + (IF RatLt(ind.rsi, <<30, 1>>) THEN 15
           ELSE IF RatGt(ind.rsi, <<70, 1>>) THEN 0 - 15 ELSE 0)
        + (IF RatGt(ind.macd, ind.macd_signal) THEN 10 ELSE 0 - 10)

\* C11: for every indicator set the score is 0.5, +/-0.1 for the SMA cross,
\* +0.15 / -0.15 / 0 for RSI < 30 / > 70 / otherwise, +/-0.1 for the MACD
\* cross; score >= 0.6 gives BUY (target price*1.08, stop price*0.94),
\* score <= 0.4 gives SELL (target price*0.92, stop price*1.06), otherwise
\* HOLD (target price, stop price*0.98); confidence is
\* |score - 0.5| * 2 * weight['technical'].
C11_TechnicalScoreMap ==
    (TechnicalWithDone /\ Returned(args.indicators) /\ args.weights.technical # Missing) =>
        LET price == <<Val(args.indicators).current_price, 1>>
            r == Val(ret)
        IN  /\ Returned(ret)
            /\ ClaimedScore >= 60 =>
                   /\ r.action = "BUY"
                   /\ RatEq(r.target_price, RatMul(price, <<108, 100>>))
                   /\ RatEq(r.stop_loss, RatMul(price, <<94, 100>>))
            /\ ClaimedScore <= 40 =>
                   /\ r.action = "SELL"
                   /\ RatEq(r.target_price, RatMul(price, <<92, 100>>))
                   /\ RatEq(r.stop_loss, RatMul(price, <<106, 100>>))
            /\ (ClaimedScore > 40 /\ ClaimedScore < 60) =>
                   /\ r.action = "HOLD"
                   /\ RatEq(r.target_price, price)
                   /\ RatEq(r.stop_loss, RatMul(price, <<98, 100>>))
            /\ RatEq(r.confidence,
                     RatMul(<<Abs(ClaimedScore - 50) * 2, 100>>,
                            <<args.weights.technical, 100>>))

\* A bearish SMA cross, an oversold RSI and a bullish MACD cross: score
\* 0.65, BUY at 108 / 94 with confidence 0.3 * 0.25.
C11_Witness ==
    /\ TechnicalWithDone
    /\ Returned(args.indicators)
    /\ RatLt(Val(args.indicators).sma_20, Val(args.indicators).sma_50)
    /\ Val(args.indicators).rsi = <<20, 1>>
    /\ Val(args.indicators).macd = <<1, 1>>
    /\ Val(args.indicators).current_price = 100
    /\ args.weights.technical = 25
    /\ Val(ret).action = "BUY"
    /\ RatEq(Val(ret).target_price, <<108, 1>>)
    /\ RatEq(Val(ret).stop_loss, <<94, 1>>)
    /\ RatEq(Val(ret).confidence, <<75, 1000>>)

----------------------------------------------------------------------------
(* Claims about the consensus aggregators *)

ConsensusDone == pc = "done" /\ op = "consensus_analyze"
CalculateDone == pc = "done" /\ op = "calculate_consensus"
GetConsensusDone == pc = "done" /\ op = "get_ai_consensus_analysis"

\* The gathered entries that are results with an action attribute, and
\* those among them with a given action.
ValidMembers ==
    {i \in 1..Len(args.results) : IsValidResult(args.results[i])}

MembersWith(action) == {i \in ValidMembers : Val(args.results[i]).action = action}

\* The action of the 60% rule on member counts.
CountRuleAction(buy_count, sell_count, valid_count) ==
    IF RatGeq(<<buy_count, valid_count>>, <<6, 10>>) THEN "BUY"
    ELSE IF RatGeq(<<sell_count, valid_count>>, <<6, 10>>) THEN "SELL"
    ELSE "HOLD"

SumVotes(recommendations) == SumSeq([k \in 1..5 |-> recommendations[k]])

\* The label the 60% rule gives a five-label distribution: strong buy and
\* buy are the buying votes, reduce and sell the selling votes.
CountRuleLabels(recommendations) ==
    LET action == CountRuleAction(recommendations[1] + recommendations[2],
                                  recommendations[4] + recommendations[5],
                                  SumVotes(recommendations))
    IN  CASE action = "BUY" -> {StrongBuy, Buy}
          [] action = "SELL" -> {Reduce, Sell}
          [] action = "HOLD" -> {Hold}

\* C12 as stated: both aggregators decide by member count over the valid
\* results: BUY when buy_count / valid_count >= 0.6, SELL when
\* sell_count / valid_count >= 0.6, HOLD otherwise.
C12_Original ==
    /\ (ConsensusDone /\ ValidMembers # {}) =>
           Val(ret).action = CountRuleAction(Cardinality(MembersWith("BUY")),
                                             Cardinality(MembersWith("SELL")),
                                             Cardinality(ValidMembers))
    /\ (CalculateDone /\ args.analyses # <<>>
           /\ SumVotes(Val(ret).recommendation_distribution) > 0) =>
           Val(ret).consensus_recommendation
               \in CountRuleLabels(Val(ret).recommendation_distribution)

\* C12 amended: MultiAIConsensusStrategy.analyze decides by member count
\* over the valid results, independent of the confidences: BUY when
\* buy_count / valid_count >= 0.6, SELL when sell_count / valid_count >= 0.6,
\* HOLD otherwise.  calculate_consensus applies no 0.6 threshold: its
\* consensus_recommendation is the label with the most votes, the first such
\* label in the order strong buy, buy, hold, reduce, sell.
C12_ConsensusByCount ==
    /\ (ConsensusDone /\ ValidMembers # {}) =>
           Val(ret).action = CountRuleAction(Cardinality(MembersWith("BUY")),
                                             Cardinality(MembersWith("SELL")),
                                             Cardinality(ValidMembers))
    /\ (CalculateDone /\ args.analyses # <<>>) =>
           LET votes == Val(ret).recommendation_distribution
           IN  \E k \in 1..5 :
                   /\ Val(ret).consensus_recommendation = LabelKeys[k]
                   /\ \A j \in 1..5 : votes[j] <= votes[k]
                   /\ \A j \in 1..(k - 1) : votes[j] < votes[k]

\* Five valid results, three of them BUY with different confidences: BUY.
C12_Witness ==
    /\ ConsensusDone
    /\ Cardinality(ValidMembers) = 5
    /\ Cardinality(MembersWith("BUY")) = 3
    /\ \E i, j \in MembersWith("BUY") :
           Val(args.results[i]).confidence # Val(args.results[j]).confidence
    /\ Val(ret).action = "BUY"

\* C13: for every non-empty input of calculate_consensus the votes of
\* recommendation_distribution sum to model_count.
C13_DistributionSumsToCount ==
    (CalculateDone /\ args.analyses # <<>>) =>
        SumVotes(Val(ret).recommendation_distribution) = Val(ret).model_count

\* The models of get_ai_consensus_analysis that are enabled, and those whose
\* analysis raised.
EnabledModels == {i \in 1..Len(args.models) : args.models[i][1]}
FailedModels == {i \in EnabledModels : Raised(args.models[i][2])}

\* The confidence of analyze for the valid members: average confidence times
\* the winning ratio, 0.5 for HOLD.
MemberConfidences ==
    LET kept == SelectSeq(args.results, IsValidResult)
    IN  [i \in 1..Len(kept) |-> Val(kept[i]).confidence]

ClaimedConsensusConfidence ==
    LET valid_count == Cardinality(ValidMembers)
        action == CountRuleAction(Cardinality(MembersWith("BUY")),
                                  Cardinality(MembersWith("SELL")), valid_count)
        avg == RatMean(MemberConfidences)
    IN  CASE action = "BUY" -> RatMul(avg, <<Cardinality(MembersWith("BUY")), valid_count>>)
          [] action = "SELL" -> RatMul(avg, <<Cardinality(MembersWith("SELL")), valid_count>>)
          [] action = "HOLD" -> <<1, 2>>

\* The part of C14 and of its amendment about MultiAIConsensusStrategy:
\* exceptions and results without an action attribute are left out of the
\* counts and of the average, and the result is HOLD with confidence 0 when
\* no valid result remains.
AnalyzeExcludesFailures ==
    ConsensusDone =>
        /\ ValidMembers = {} => IsHoldZero(Val(ret))
        /\ ValidMembers # {} =>
               /\ Val(ret).action = CountRuleAction(Cardinality(MembersWith("BUY")),
                                                    Cardinality(MembersWith("SELL")),
                                                    Cardinality(ValidMembers))
               /\ RatEq(Val(ret).confidence, ClaimedConsensusConfidence)

----------------------------------------------------------------------------
(* Claims about the configuration *)

ConstructDone == pc = "done" /\ op = "SignalGenerator"

\* The sum of the configured weights, in percent.
WeightSum ==
    LET w == DictGet(args.config, "weights", DefaultWeights)
    IN  w.technical + w.fundamental + w.sentiment + w.ai

\* C15: constructing a SignalGenerator with weights that do not sum to 1.0
\* is rejected as a configuration error.
C15_WeightsValidated ==
    (ConstructDone /\ WeightSum # 100) => Raised(ret)

----------------------------------------------------------------------------
(* Claims about the indicator calculator of ai_strategies *)

IndicatorsDone == pc = "done" /\ op = "calculate_technical_indicators"

\* The input is a price frame with its columns.
IsPriceSeries == args.price_data.kind = "frame" /\ args.price_data.has_columns

\* The close-to-close deltas of the 14-period window that ends at the last
\* bar (series of 20 bars or more).
WindowDeltas ==
    LET closes == args.price_data.closes
    IN  [i \in 1..14 |-> closes[Len(closes) - 14 + i] - closes[Len(closes) - 15 + i]]

NoLossInWindow == \A i \in 1..14 : WindowDeltas[i] >= 0
GainInWindow == \E i \in 1..14 : WindowDeltas[i] > 0

\* C16: calculate_technical_indicators returns the empty set for every
\* series with fewer than 20 bars and, without raising, a set with all its
\* fields defined for every series with 20 bars or more.
C16_IndicatorsDefined ==
    (IndicatorsDone /\ IsPriceSeries) =>
        /\ Returned(ret)
        /\ Len(args.price_data.closes) < 20 => Val(ret).empty
        /\ Len(args.price_data.closes) >= 20 =>
               /\ ~Val(ret).empty
               /\ {"sma_20", "sma_50", "rsi", "macd_above", "current_price"}
                      \subseteq DOMAIN Val(ret)

\* C17 as stated: when there is no loss in the 14-period window, whether
\* the average gain is zero or positive, the RSI that is returned is 50.
C17_Original ==
    (IndicatorsDone /\ IsPriceSeries /\ Len(args.price_data.closes) >= 20
        /\ NoLossInWindow /\ Returned(ret)) =>
        RatEq(Val(ret).rsi, <<50, 1>>)

\* C17 amended: when there is no loss in the 14-period window and the
\* average gain is positive the RSI returned is 100; when the average gain
\* is zero as well no RSI is returned: the fallback value 50 is the int 50
\* and the calculator raises AttributeError.
C17_RsiWithoutLosses ==
    (IndicatorsDone /\ IsPriceSeries /\ Len(args.price_data.closes) >= 20
        /\ NoLossInWindow) =>
        /\ GainInWindow => Returned(ret) /\ RatEq(Val(ret).rsi, <<100, 1>>)
        /\ ~GainInWindow => ret = Raise("AttributeError")

\* A series that is flat but for one rise inside the window: RSI 100.
C17_Witness ==
    /\ IndicatorsDone
    /\ IsPriceSeries
    /\ Len(args.price_data.closes) = 20
    /\ NoLossInWindow
    /\ Cardinality({i \in 1..14 : WindowDeltas[i] > 0}) = 1
    /\ RatEq(Val(ret).rsi, <<100, 1>>)

----------------------------------------------------------------------------
(* Claims about the signals of the pipeline *)

FilterDone == pc = "done" /\ op = "apply_risk_filters"

InRange(sig) ==
    /\ sig.action \in {"BUY", "SELL", "HOLD"}
    /\ RatGeq(sig.confidence, <<0, 1>>)
    /\ RatLeq(sig.confidence, <<1, 1>>)

\* The analyzer signals and the fused signal of a generate_single_signal
\* call whose market data is present.
PipelineAnalyzerOutcomes ==
    AnalyzerOutcomes(args.symbol, Val(args.market), args.weights,
                     args.fundamental_score, args.sentiment_score, args.ai_result)

PipelineFused == fuse_signals([i \in 1..4 |-> Val(PipelineAnalyzerOutcomes[i])])

\* C18: every TradeSignal of the pipeline, from an analyzer, from
\* fuse_signals or from apply_risk_filters, has its action in
\* {BUY, SELL, HOLD} and its confidence in [0, 1], for analyzer confidences
\* and weights in [0, 1].
C18_SignalRanges ==
    /\ GenerateDone =>
           /\ Returned(ret)
           /\ InRange(Val(ret))
           /\ (Returned(args.market) /\ ~Val(args.market).empty) =>
                  /\ \A i \in 1..4 :
                         /\ Returned(PipelineAnalyzerOutcomes[i])
                         /\ InRange(Val(PipelineAnalyzerOutcomes[i]))
                  /\ InRange(PipelineFused)
    /\ FuseDone => InRange(Val(ret))
    /\ (TechnicalDone \/ TechnicalWithDone) => Returned(ret) /\ InRange(Val(ret))
    /\ (FilterDone /\ Returned(ret)) => InRange(Val(ret))

\* The four analyzers agreed with weight 1 each and the risk filter cut the
\* fused confidence of 1 to 0.7.
C18_Witness ==
    /\ GenerateDone
    /\ Returned(args.market)
    /\ ~Val(args.market).empty
    /\ args.weights.ai = 100
    /\ RatEq(PipelineFused.confidence, <<1, 1>>)
    /\ Val(ret).action # "HOLD"
    /\ RatEq(Val(ret).confidence, <<7, 10>>)

\* The values of one price field of the input signals of fuse_signals that
\* satisfy a test, and their arithmetic mean (0 when there is none).
FieldValues(field, Keep(_)) ==
    LET all == [i \in 1..Len(args) |-> args[i][field]]
    IN  SelectSeq(all, Keep)

NonZero(p) == p[1] # 0
Positive(p) == p[1] > 0

DeviationAbove15 ==
    LET current_price == GetOrZero(args.market_data.current_price)
        stop == args.signal.stop_loss
    IN  /\ current_price # 0
        /\ RatGt(Rat(Abs(stop[1] - current_price * stop[2]), current_price * stop[2]),
                 <<15, 100>>)

\* C20: apply_risk_filters never rejects: for an action other than HOLD
\* with a deviation above 0.15 it returns the signal with its confidence
\* multiplied by 0.7 and action, target_price and stop_loss unchanged; in
\* every other case it returns the signal with all fields unchanged.
C20_PenaltyNotRejection ==
    FilterDone =>
        /\ Returned(ret)
        /\ (Returned(ret) /\ args.signal.action # "HOLD" /\ DeviationAbove15) =>
               /\ RatEq(Val(ret).confidence, RatMul(args.signal.confidence, <<7, 10>>))
               /\ Val(ret).action = args.signal.action
               /\ Val(ret).target_price = args.signal.target_price
               /\ Val(ret).stop_loss = args.signal.stop_loss
        /\ (Returned(ret) /\ ~(args.signal.action # "HOLD" /\ DeviationAbove15)) =>
               Val(ret) = args.signal

----------------------------------------------------------------------------
(* Claims about the ownership of the signal objects *)

\* Two signal objects carry the same field values.
SameFields(a, b) ==
    /\ DOMAIN a = DOMAIN b
    /\ \A f \in DOMAIN a :
           IF f \in {"confidence", "target_price", "stop_loss"}
           THEN RatEq(a[f], b[f]) ELSE a[f] = b[f]

\* C21: fuse_signals, apply_risk_filters and validate_trade_signal leave
\* every field of the signal objects they receive unchanged, and no stage
\* increases confidence or quantity: the filtered confidence is at most the
\* confidence received and an approved position size is at most the
\* quantity of the signal.
C21_NoMutation ==
    /\ (FuseDone \/ FilterDone \/ ValidateDone) =>
           /\ Len(objects) = Len(PassedObjects)
           /\ \A i \in 1..Len(objects) : SameFields(objects[i], PassedObjects[i])
    /\ (FilterDone /\ Returned(ret)) =>
           /\ RatLeq(Val(ret).confidence, args.signal.confidence)
           /\ Val(ret).quantity <= args.signal.quantity
    /\ (ValidateDone /\ Approved /\ args.signal.quantity >= 0) =>
           RatLeq(Val(ret).max_position_size, <<args.signal.quantity, 1>>)

----------------------------------------------------------------------------
(* Claims about the fan-in of generate_single_signal *)

\* The try bodies of the four analyzers of the call, in the order they are
\* awaited.
PipelineBodies ==
    LET market_data == Val(args.market)
    IN  << technical_body(args.symbol, market_data, args.weights),
           fundamental_body(args.symbol, market_data, args.weights, args.fundamental_score),
           sentiment_body(args.symbol, market_data, args.weights, args.sentiment_score),
           ai_body(args.symbol, market_data, args.weights, args.ai_result) >>

\* The signals the four analyzers of the call return.
PipelineSignals ==
    LET market_data == Val(args.market)
    IN  << Val(technical_analysis(args.symbol, market_data, args.weights)),
           Val(fundamental_analysis(args.symbol, market_data, args.weights,
                                    args.fundamental_score)),
           Val(sentiment_analysis(args.symbol, market_data, args.weights,
                                  args.sentiment_score)),
           Val(ai_analysis(args.symbol, market_data, args.weights, args.ai_result)) >>

\* C22: every list generate_single_signal hands to fuse_signals holds
\* exactly four signals, the ones returned by the technical, fundamental,
\* sentiment and AI analyzers in that order, and an analyzer whose body
\* raised is represented in it by a HOLD signal of confidence 0.
C22_FuserReceivesFour ==
    GenerateDone =>
        \A k \in 1..Len(fuser_calls) :
            /\ Len(fuser_calls[k]) = 4
            /\ fuser_calls[k] = PipelineSignals
            /\ \A i \in 1..4 :
                   Raised(PipelineBodies[i]) => IsHoldZero(fuser_calls[k][i])

\* The fuser ran on four signals of which the last stands for the AI
\* analyzer that raised and the first for a technical analyzer without
\* price data.
C22_Witness ==
    /\ GenerateDone
    /\ Len(fuser_calls) = 1
    /\ Len(fuser_calls[1]) = 4
    /\ Raised(args.ai_result)
    /\ IsHoldZero(fuser_calls[1][4])
    /\ IsHoldZero(fuser_calls[1][1])
    /\ ~IsHoldZero(fuser_calls[1][2])

----------------------------------------------------------------------------
(* Claims about the volatility and liquidity checks *)

\* The outcome of check_volatility and of check_liquidity in the list of a
\* validate_trade_signal call.
VolatilityCheck == checks[5]
LiquidityCheck == checks[6]

\* The price series of the risk gate's market data: bars closes of the
\* same price, so every daily return is 0 and the annualized volatility,
\* the standard deviation of the returns times sqrt(252), is 0.
RiskCloses == Series(args.market_data.bars, "flat")
ReturnsAllZero == \A i \in 2..Len(RiskCloses) : RiskCloses[i] = RiskCloses[i - 1]

\* C23: check_volatility passes with the insufficient-data message exactly
\* when the price series is missing or has fewer than 20 bars; for 20 or
\* more bars it returns passed = False iff the annualized volatility
\* exceeds 0.6, so a series without any price change passes with the
\* volatility message.
C23_VolatilityRule ==
    (ValidateDone /\ Len(checks) = 6) =>
        LET bars == args.market_data.bars
            short == bars = Missing \/ bars < 20
        IN  /\ short <=> (VolatilityCheck.passed /\ VolatilityCheck.message = "insufficient")
            /\ (~short /\ ReturnsAllZero) => VolatilityCheck.passed

\* The order notional and the volume of the call (0 for a snapshot without
\* the field), as check_liquidity reads them.
Notional == args.signal.quantity * GetOrZero(args.market_data.current_price)
RecentVolume == GetOrZero(args.market_data.volume)

\* C24 as stated: check_liquidity returns passed = False iff the notional
\* exceeds 1% of the volume, a volume of 0 or a missing volume included.
C24_Original ==
    (ValidateDone /\ Len(checks) = 6) =>
        (~LiquidityCheck.passed <=> Notional * 100 > RecentVolume)

\* C24 amended: check_liquidity returns passed = False iff the volume is
\* above 0 and the notional exceeds 1% of it; with a volume of 0 or a
\* snapshot without a volume field it passes whatever the notional.
C24_LiquidityRule ==
    (ValidateDone /\ Len(checks) = 6) =>
        /\ ~LiquidityCheck.passed <=> (RecentVolume > 0 /\ Notional * 100 > RecentVolume)
        /\ RecentVolume = 0 => LiquidityCheck.passed

\* An order of 100 shares at 50 passed the check on a snapshot without a
\* volume field.
C24_Witness ==
    /\ ValidateDone
    /\ Len(checks) = 6
    /\ args.market_data.volume = Missing
    /\ Notional = 5000
    /\ LiquidityCheck.passed

----------------------------------------------------------------------------
(* Claims about the tally of calculate_consensus *)

\* The recommendation label of the i-th analysis of the call, hold when the
\* analysis has none, and the keys that occur in it as a substring.
LabelOf(i) == DictGet(args.analyses[i], "recommendation", Hold)
KeysIn(rec) == {k \in 1..5 : Contains(LabelKeys[k], rec)}

\* The analyses counted under key k by the rule: those whose label contains
\* key k and no key declared before it.
CountedUnder(k) ==
    {i \in 1..Len(args.analyses) :
        k \in KeysIn(LabelOf(i)) /\ \A j \in KeysIn(LabelOf(i)) : k <= j}

\* C25: in the distribution calculate_consensus returns, every analysis is
\* counted under at most one key, the first key in the order strong buy,
\* buy, hold, reduce, sell that is a substring of its label; a strong-buy
\* label, which also contains the buy key, is counted as strong buy only.
C25_FirstMatchWins ==
    (CalculateDone /\ args.analyses # <<>>) =>
        LET votes == Val(ret).recommendation_distribution
        IN  /\ \A k \in 1..5 : votes[k] = Cardinality(CountedUnder(k))
            /\ SumVotes(votes) <= Len(args.analyses)
            /\ (\A i \in 1..Len(args.analyses) : LabelOf(i) = StrongBuy) =>
                   votes[1] = Len(args.analyses) /\ votes[2] = 0

\* A strong-buy label and a label that names buy before hold were tallied
\* as one strong-buy vote and one buy vote.
C25_Witness ==
    /\ CalculateDone
    /\ Len(args.analyses) = 2
    /\ LabelOf(1) = StrongBuy
    /\ KeysIn(LabelOf(2)) = {2, 3}
    /\ Val(ret).recommendation_distribution[1] = 1
    /\ Val(ret).recommendation_distribution[2] = 1
    /\ Val(ret).recommendation_distribution[3] = 0

----------------------------------------------------------------------------
(* Claims about the technical analyzer as shipped *)

\* The indicator set the shipped calculator gives the series of the call.
ShippedIndicators == Val(calculate_indicators(args.market_data.price_data))

\* C26: with the shipped indicator calculator (rsi 50, macd = macd_signal
\* = 0) technical_analysis on a series of 20 bars or more never returns BUY:
\* the score is 0.5, action HOLD, when the 20-bar average is above the long
\* average and 0.3, action SELL, otherwise.
C26_NeverBuy ==
    (TechnicalDone /\ ~InsufficientInput) =>
        /\ Returned(ret)
        /\ Val(ret).action \in {"HOLD", "SELL"}
        /\ args.market_data.price_data.has_columns =>
               LET above == RatGt(ShippedIndicators.sma_20, ShippedIndicators.sma_50)
               IN  /\ TechnicalScore(ShippedIndicators) = IF above THEN 50 ELSE 30
                   /\ Val(ret).action = IF above THEN "HOLD" ELSE "SELL"
                   /\ RatEq(Val(ret).confidence,
                            IF above THEN <<0, 1>>
                            ELSE RatMul(<<4, 10>>, <<args.weights.technical, 100>>))

\* A rising series of more than 50 bars, short average above the long one,
\* scored 0.5 and was answered with HOLD at the current price.
C26_Witness ==
    /\ TechnicalDone
    /\ Len(args.market_data.price_data.closes) > 50
    /\ args.market_data.price_data.has_columns
    /\ RatGt(ShippedIndicators.sma_20, ShippedIndicators.sma_50)
    /\ TechnicalScore(ShippedIndicators) = 50
    /\ Val(ret).action = "HOLD"
    /\ RatGt(Val(ret).target_price, <<0, 1>>)

----------------------------------------------------------------------------
(* Claims about generate_trade_signals *)

GenerateAllDone == pc = "done" /\ op = "generate_trade_signals"

\* The signal generate_single_signal returns for the i-th list entry.
EntrySignal(i) ==
    Val(generate_single_signal(args.runs[i].symbol, args.runs[i].market, args.weights,
                               args.runs[i].fundamental_score,
                               args.runs[i].sentiment_score, args.runs[i].ai_result))

\* C27: generate_trade_signals returns only signals whose action is not
\* HOLD, ordered by non-increasing confidence, and at most one per entry of
\* the symbol list: the result is a rearrangement of the signals of the
\* entries that were not answered with HOLD, so it is no longer than the
\* list and holds a symbol no more often than the list does.
C27_SortedNonHold ==
    GenerateAllDone =>
        /\ Returned(ret)
        /\ \A i \in 1..Len(Val(ret)) : Val(ret)[i].action # "HOLD"
        /\ \A i \in 1..(Len(Val(ret)) - 1) :
               RatGeq(Val(ret)[i].confidence, Val(ret)[i + 1].confidence)
        /\ Len(Val(ret)) <= Len(args.runs)
        /\ \A symbol \in Symbols :
               Cardinality({i \in 1..Len(Val(ret)) : Val(ret)[i].symbol = symbol})
                   <= Cardinality({i \in 1..Len(args.runs) : args.runs[i].symbol = symbol})
        /\ \E f \in [1..Len(Val(ret)) -> 1..Len(args.runs)] :
               /\ \A i, j \in 1..Len(Val(ret)) : i # j => f[i] # f[j]
               /\ \A i \in 1..Len(Val(ret)) : Val(ret)[i] = EntrySignal(f[i])
               /\ \A k \in 1..Len(args.runs) :
                      EntrySignal(k).action # "HOLD" => \E i \in 1..Len(Val(ret)) : f[i] = k

\* Of three entries the one answered with HOLD was dropped and the other
\* two came back with the more confident signal, from the later entry,
\* first.
C27_Witness ==
    /\ GenerateAllDone
    /\ Len(args.runs) = 3
    /\ EntrySignal(1).action = "HOLD"
    /\ EntrySignal(2).action = "BUY"
    /\ EntrySignal(3).action = "SELL"
    /\ RatLt(EntrySignal(2).confidence, EntrySignal(3).confidence)
    /\ Val(ret) = <<EntrySignal(3), EntrySignal(2)>>

----------------------------------------------------------------------------
(* Claims about the consensus label of calculate_consensus *)

\* The votes of the call under the first-match rule, and the keys that
\* have the most of them.
TalliedVotes == [k \in 1..5 |-> Cardinality(CountedUnder(k))]
Leaders == {k \in 1..5 : \A j \in 1..5 : TalliedVotes[j] <= TalliedVotes[k]}

\* C30: on a non-empty input calculate_consensus returns the label with
\* the most votes, whatever its share of the votes, and the first such
\* label in the order strong buy, buy, hold, reduce, sell when several
\* lead; on an empty input it returns the hold label with model_count 0.
C30_PluralityVote ==
    CalculateDone =>
        IF args.analyses = <<>>
        THEN /\ Val(ret).consensus_recommendation = Hold
             /\ Val(ret).model_count = 0
        ELSE /\ \E k \in Leaders :
                    /\ Val(ret).consensus_recommendation = LabelKeys[k]
                    /\ \A j \in Leaders : k <= j
             /\ Val(ret).model_count = Len(args.analyses)

\* One vote each for buy, hold and sell: buy, with a third of the votes, is
\* the consensus.
C30_Witness ==
    /\ CalculateDone
    /\ Len(args.analyses) = 3
    /\ TalliedVotes = <<0, 1, 1, 0, 1>>
    /\ Val(ret).consensus_recommendation = Buy

----------------------------------------------------------------------------
(* Claims about UpgradeStateManager *)

Phase(phase) == state.upgrade_phases[phase]
Phases == DOMAIN state.upgrade_phases

\* C28: after any sequence of start_module and complete_module calls from
\* the initial state, a phase has status completed if and only if every
\* module of that phase has status completed, and a call of either method
\* that names an unknown phase, or a module the phase does not have, leaves
\* the state unchanged.
C28_PhaseCompletion ==
    /\ \A phase \in Phases :
           Phase(phase).status = "completed"
               <=> \A module \in DOMAIN Phase(phase).modules :
                       Phase(phase).modules[module].status = "completed"
    /\ \A phase \in CalledPhases, module \in CalledModules :
           (phase \notin Phases \/ module \notin DOMAIN Phase(phase).modules) =>
               /\ start_module(state, phase, module) = state
               /\ complete_module(state, phase, module) = state

\* The four modules of phase_1 are completed, one of them after having been
\* started, and so is the phase, while phase_2 is in progress with a module
\* started after phase_1 was.
C28_Witness ==
    /\ Phase("phase_1").status = "completed"
    /\ \A module \in DOMAIN Phase("phase_1").modules :
           Phase("phase_1").modules[module].status = "completed"
    /\ Phase("phase_1").modules["auto_reporting"].started_at = "time"
    /\ Phase("phase_2").status = "in_progress"
    /\ state.current_module = "open_api"

----------------------------------------------------------------------------
(* Claims about AITradingEngine *)

Sleeping == pc \in {"sleep", "sleep_after_error"}
StoppedAfterStart == stops_after > 0

\* C29: once stop() has run after start() set running = True, running stays
\* False, at most one more sleep of the loop completes and start()
\* eventually returns; a stop() that ran before start() set the flag has no
\* effect: the loop runs with running = True until a later stop(), and
\* start() returns only after one.
C29_StopEndsLoop ==
    /\ [](StoppedAfterStart => ~running)
    /\ [](iterations_after_stop <= 1)
    /\ []((Sleeping /\ ~StoppedAfterStart) => running)
    /\ [](pc = "returned" => StoppedAfterStart)
    /\ (StoppedAfterStart ~> pc = "returned")

\* start() returned after a stop() that came too early, two full
\* iterations, a second stop() and the end of the sleep it interrupted.
C29_Witness ==
    /\ pc = "returned"
    /\ stops_before = 1
    /\ stops_after = 1
    /\ iterations = 3
    /\ iterations_after_stop = 1
    /\ ~running

====
